---------------------------- MODULE Spec2Model ----------------------------
(***************************************************************************)
(* A model of the polygon boolean engine of polygon_clipping_rs            *)
(* (src/src/lib.rs, src/src/util.rs): the fast path of perform_boolean,    *)
(* the event generator, the sweep (subdivide_edges with set_information,   *)
(* check_for_intersection and split_edge) and the contour assembler        *)
(* (join_contours, compute_depth, compute_contour).                        *)
(*                                                                         *)
(* Numbers.  Vec2 coordinates are f32 in the code.  The model works on     *)
(* inputs whose coordinates are small integers and whose edges are         *)
(* axis-parallel or diagonal with even coordinates, so that every value    *)
(* the code computes (cross products, the parameters s and t, the split    *)
(* points) is an integer or a ratio whose product is an integer: on these  *)
(* inputs f32 arithmetic is exact and is modelled by integer arithmetic.   *)
(* Ratios are kept as numerator and denominator.                           *)
(*                                                                         *)
(* Orderings.  std::cmp::Ordering is modelled by -1 (Less), 0 (Equal),     *)
(* 1 (Greater); Ordering::reverse is negation.                             *)
(***************************************************************************)
EXTENDS Integers, Sequences, FiniteSets, TLC

Less == 0 - 1
Equal == 0
Greater == 1

\* Ord::cmp on numbers (f32::partial_cmp on finite values, usize::cmp).
Cmp(a, b) == IF a < b THEN Less ELSE IF a > b THEN Greater ELSE Equal

\* bool::cmp: false < true.
CmpBool(a, b) == Cmp(IF a THEN 1 ELSE 0, IF b THEN 1 ELSE 0)

Min(a, b) == IF a < b THEN a ELSE b
Max(a, b) == IF a > b THEN a ELSE b
Abs(a) == IF a < 0 THEN 0 - a ELSE a

-----------------------------------------------------------------------------
(* glam::Vec2 *)

Vec2(x, y) == <<x, y>>
VSub(a, b) == <<a[1] - b[1], a[2] - b[2]>>
PerpDot(a, b) == a[1] * b[2] - a[2] * b[1]
Dot(a, b) == a[1] * b[1] + a[2] * b[2]

-----------------------------------------------------------------------------
(* f32: the coordinates of the inputs are small integers, on which the     *)
(* subtractions and the products of integers are exact; a quotient and    *)
(* what is computed from it are rounded to 24 significant bits, ties to   *)
(* even.                                                                   *)

\* An f32 value is written <<m, e>> and stands for m / 2^e, with e >= 0 and
\* m odd unless e = 0.
F32(m, e) == <<m, e>>

RECURSIVE Normalised(_, _)
Normalised(m, e) ==
  IF e > 0 /\ m % 2 = 0 THEN Normalised(m \div 2, e - 1) ELSE F32(m, e)

\* The number of bits of a natural number.
RECURSIVE BitLength(_)
BitLength(n) == IF n = 0 THEN 0 ELSE 1 + BitLength(n \div 2)

\* The number of significant bits of an f32.
MantissaBits == 24
\* The number of bits of the naturals the arithmetic below works on.
WorkingBits == MantissaBits + 6

\* (q + f) / 2^e rounded to the nearest f32, ties to even, where q >= 0 and
\* f is a fraction in (0, 1) if sticky and 0 otherwise; q has more than 24
\* bits if sticky.
RoundedToF32(q, sticky, e) ==
  IF BitLength(q) <= MantissaBits THEN Normalised(q, e)
  ELSE LET sh == BitLength(q) - MantissaBits
           main == q \div (2 ^ sh)
           rem == q % (2 ^ sh)
           half == 2 ^ (sh - 1)
           up == rem > half \/ (rem = half /\ (sticky \/ main % 2 = 1))
           rounded == IF up THEN main + 1 ELSE main
       IN IF sh >= e THEN F32(rounded * (2 ^ (sh - e)), 0)
          ELSE Normalised(rounded, e - sh)

Negated(x) == F32(0 - x[1], x[2])

\* x with the sign of y.
SignedAs(x, y) == IF y[1] < 0 THEN Negated(x) ELSE x

\* The quotient (q + rem / b) / 2^e, with rem < b, in f32: bits of the
\* quotient are produced until there are more than 24 or nothing remains.
RECURSIVE LongDivision(_, _, _, _)
LongDivision(q, rem, b, e) ==
  IF rem = 0 \/ BitLength(q) > MantissaBits
    THEN RoundedToF32(q, rem # 0, e)
  ELSE LongDivision(2 * q + (IF 2 * rem >= b THEN 1 ELSE 0),
                    IF 2 * rem >= b THEN 2 * rem - b ELSE 2 * rem, b, e + 1)

\* a / b in f32, for integers a and b.
F32Div(a, b) ==
  SignedAs(LongDivision(Abs(a) \div Abs(b), Abs(a) % Abs(b), Abs(b), 0),
           F32(IF (a < 0) = (b < 0) THEN 1 ELSE 0 - 1, 0))

\* x * k in f32, for an f32 x and an integer k.
F32Mul(x, k) ==
  SignedAs(RoundedToF32(Abs(x[1] * k), FALSE, x[2]), F32(x[1] * k, 0))

\* n / 2^d rounded down, for a natural number n.
ShiftedDown(n, d) == IF d > WorkingBits THEN 0 ELSE n \div (2 ^ d)

\* n / 2^d has a fractional part, for a natural number n.
LosesBits(n, d) == IF d > WorkingBits THEN n # 0 ELSE n % (2 ^ d) # 0

\* (h * 2^d + l) / 2^e in f32, or (h * 2^d - l) / 2^e if minus, where
\* 0 <= l < 2^24, l < 2^d, and h >= 1 if minus: the number is formed with
\* as many bits of l as fit.
JoinedToF32(h, l, minus, d, e) ==
  LET g == Min(d, WorkingBits - BitLength(h))
      low == ShiftedDown(l, d - g)
      sticky == LosesBits(l, d - g)
  IN RoundedToF32(
       IF h = 0 THEN l
       ELSE IF minus THEN h * (2 ^ g) - low - (IF sticky THEN 1 ELSE 0)
       ELSE h * (2 ^ g) + low,
       h # 0 /\ sticky,
       IF h = 0 THEN e ELSE e - (d - g))

\* x + y in f32, where the unit 2^-x[2] of x is not finer than that of y:
\* in units of 2^-y[2], |x| = px * 2^d and |y| = w * 2^d + l.
F32AddCoarseFine(x, y) ==
  LET d == y[2] - x[2]
      px == Abs(x[1])
      w == ShiftedDown(Abs(y[1]), d)
      l == IF d > WorkingBits THEN Abs(y[1]) ELSE Abs(y[1]) % (2 ^ d)
      same_sign == (x[1] < 0) = (y[1] < 0)
  IN IF y[1] = 0 THEN x
     ELSE IF x[1] = 0 THEN y
     ELSE SignedAs(
            JoinedToF32(IF same_sign THEN px + w
                        ELSE IF px > w THEN px - w ELSE w - px,
                        l, ~same_sign /\ px > w, d, y[2]),
            IF same_sign \/ px > w THEN x ELSE y)

\* x + y in f32.
F32Add(x, y) ==
  F32AddCoarseFine(IF x[2] <= y[2] THEN x ELSE y,
                   IF x[2] <= y[2] THEN y ELSE x)

\* x < y for f32 values.
F32Less(x, y) == F32Add(x, Negated(y))[1] < 0

F32Min(x, y) == IF F32Less(y, x) THEN y ELSE x
F32Max(x, y) == IF F32Less(x, y) THEN y ELSE x

\* A point with integer coordinates as a pair of f32 values.
F32Vec2(p) == <<F32(p[1], 0), F32(p[2], 0)>>

\* The point of the integer grid at or below a pair of f32 values, which is
\* that pair when its coordinates are integers.
GridPoint(p) ==
  Vec2(IF p[1][1] < 0 THEN 0 - 1 - ShiftedDown(Abs(p[1][1]) - 1, p[1][2])
       ELSE ShiftedDown(p[1][1], p[1][2]),
       IF p[2][1] < 0 THEN 0 - 1 - ShiftedDown(Abs(p[2][1]) - 1, p[2][2])
       ELSE ShiftedDown(p[2][1], p[2][2]))

\* p + s * v, for an f32 s and integer vectors p and v.
AddScaled(p, s, v) ==
  <<F32Add(F32(p[1], 0), F32Mul(s, v[1])),
    F32Add(F32(p[2], 0), F32Mul(s, v[2]))>>

-----------------------------------------------------------------------------
(* Orders *)

\* lex_order_points: sort by x, then y.
lex_order_points(a, b) ==
  IF Cmp(a[1], b[1]) # Equal THEN Cmp(a[1], b[1]) ELSE Cmp(a[2], b[2])

\* point_relative_to_line: 0.0.partial_cmp(&(b - a).perp_dot(point - a)).
point_relative_to_line(a, b, point) ==
  Cmp(0, PerpDot(VSub(b, a), VSub(point, a)))

-----------------------------------------------------------------------------
(* Operation *)

Intersection == "Intersection"
Union == "Union"
XOR == "XOR"
Difference == "Difference"
Operation == {Intersection, Union, XOR, Difference}

(* EdgeCoincidenceType *)
NoCoincidence == "NoCoincidence"
SameTransition == "SameTransition"
DifferentTransition == "DifferentTransition"
DuplicateCoincidence == "DuplicateCoincidence"

\* Option<usize>::None
None == 0 - 1

\* SourceEdge
SourceEdge(is_from_subject, contour, edge) ==
  [is_from_subject |-> is_from_subject, contour |-> contour, edge |-> edge]

\* Event. Events are immutable, so the model keeps every created event in
\* the table `events` (at index event_id + 1) and the queue, the sweep line
\* and the result list hold event ids.
Event(event_id, point, left, is_subject, other_point) ==
  [event_id |-> event_id, point |-> point, left |-> left,
   is_subject |-> is_subject, other_point |-> other_point]

\* Event::is_vertical
is_vertical(e) == e.point[1] = e.other_point[1]

\* A faulty variant of Event::partial_cmp: the comparison of is_subject is
\* not reversed, which puts clip events before subject events.
EventCmp_clip_first(a, b) ==
  IF lex_order_points(a.point, b.point) # Equal
    THEN lex_order_points(a.point, b.point)
  ELSE IF CmpBool(a.left, b.left) # Equal
    THEN CmpBool(a.left, b.left)
  ELSE IF CmpBool(is_vertical(a), is_vertical(b)) # Equal
    THEN CmpBool(is_vertical(a), is_vertical(b))
  ELSE IF point_relative_to_line(a.point, a.other_point, b.other_point) # Equal
    THEN (IF a.left
            THEN point_relative_to_line(a.point, a.other_point, b.other_point)
            ELSE 0 - point_relative_to_line(a.point, a.other_point,
                                            b.other_point))
  ELSE IF CmpBool(a.is_subject, b.is_subject) # Equal
    THEN CmpBool(a.is_subject, b.is_subject)
  ELSE Cmp(a.event_id, b.event_id)

\* Event::partial_cmp, the event-queue order.
EventCmp(a, b) ==
  IF lex_order_points(a.point, b.point) # Equal
    THEN lex_order_points(a.point, b.point)
  ELSE IF CmpBool(a.left, b.left) # Equal
    THEN CmpBool(a.left, b.left)
  ELSE IF CmpBool(is_vertical(a), is_vertical(b)) # Equal
    THEN CmpBool(is_vertical(a), is_vertical(b))
  ELSE IF point_relative_to_line(a.point, a.other_point, b.other_point) # Equal
    THEN (IF a.left
            THEN point_relative_to_line(a.point, a.other_point, b.other_point)
            ELSE 0 - point_relative_to_line(a.point, a.other_point,
                                            b.other_point))
  ELSE IF CmpBool(a.is_subject, b.is_subject) # Equal
    THEN 0 - CmpBool(a.is_subject, b.is_subject)
  ELSE Cmp(a.event_id, b.event_id)

\* SweepLineEvent::is_colinear
is_colinear(a, b) ==
  /\ point_relative_to_line(a.point, a.other_point, b.point) = Equal
  /\ point_relative_to_line(a.point, a.other_point, b.other_point) = Equal

\* The value standing for a reached unreachable!() in a comparison.
Unreachable == 2

\* SweepLineEvent::partial_cmp, the sweep-line order.
SweepCmp(a, b) ==
  IF is_colinear(a, b) THEN EventCmp(a, b)
  ELSE IF a.point[1] = b.point[1]
    THEN (IF Cmp(a.point[2], b.point[2]) = Equal
            THEN point_relative_to_line(a.point, a.other_point, b.other_point)
            ELSE Cmp(a.point[2], b.point[2]))
  ELSE IF EventCmp(a, b) = Equal THEN Unreachable
  ELSE IF EventCmp(a, b) = Greater
    THEN 0 - point_relative_to_line(b.point, b.other_point, a.point)
  ELSE point_relative_to_line(a.point, a.other_point, b.point)

-----------------------------------------------------------------------------
(* util.rs: edge_intersection *)

\* An EdgeIntersectionResult.  start_f32 and end_f32 are the points as
\* computed; start and end are their points of the integer grid, on which
\* the sweep of the model works.
NoIntersection == [kind |-> "NoIntersection", start |-> <<0, 0>>, end |-> <<0, 0>>, start_f32 |-> F32Vec2(<<0, 0>>), end_f32 |-> F32Vec2(<<0, 0>>)]
PointIntersection(p) == [kind |-> "PointIntersection", start |-> GridPoint(p), end |-> GridPoint(p), start_f32 |-> p, end_f32 |-> p]
LineIntersection(p, q) == [kind |-> "LineIntersection", start |-> GridPoint(p), end |-> GridPoint(q), start_f32 |-> p, end_f32 |-> q]

\* The non-parallel branch, with s and t as computed.
edge_intersection_crossing(line_1, s, t) ==
  IF F32Less(s, F32(0, 0)) \/ F32Less(F32(1, 0), s) THEN NoIntersection
  ELSE IF F32Less(t, F32(0, 0)) \/ F32Less(F32(1, 0), t) THEN NoIntersection
  ELSE IF /\ s \in {F32(0, 0), F32(1, 0)}
          /\ t \in {F32(0, 0), F32(1, 0)}
    THEN NoIntersection
  ELSE PointIntersection(AddScaled(line_1[1], s, VSub(line_1[2], line_1[1])))

\* The parallel branch on one line, with sa and sb as computed.
edge_intersection_overlap(line_1, sa, sb) ==
  LET smin == F32Min(sa, sb)
      smax == F32Max(sa, sb)
      v == VSub(line_1[2], line_1[1])
  IN IF ~F32Less(F32(0, 0), smax) \/ ~F32Less(smin, F32(1, 0))
       THEN NoIntersection
     ELSE LineIntersection(
            AddScaled(line_1[1], F32Max(smin, F32(0, 0)), v),
            AddScaled(line_1[1], F32Min(smax, F32(1, 0)), v))

edge_intersection(line_1, line_2) ==
  LET line_1_vector == VSub(line_1[2], line_1[1])
      line_2_vector == VSub(line_2[2], line_2[1])
      relative_start == VSub(line_2[1], line_1[1])
      cross == PerpDot(line_1_vector, line_2_vector)
      line_1_len_squared == Dot(line_1_vector, line_1_vector)
      sa == F32Div(Dot(relative_start, line_1_vector), line_1_len_squared)
  IN IF cross * cross > 0
       THEN edge_intersection_crossing(line_1,
              F32Div(PerpDot(relative_start, line_2_vector), cross),
              F32Div(PerpDot(relative_start, line_1_vector), cross))
     ELSE IF Abs(PerpDot(relative_start, line_1_vector)) > 0
       THEN NoIntersection
     ELSE edge_intersection_overlap(line_1, sa,
            F32Add(sa, F32Div(Dot(line_1_vector, line_2_vector),
                              line_1_len_squared)))

-----------------------------------------------------------------------------
(* EventRelation *)

EventRelation(sibling_id, sibling_point, source_edge) ==
  [sibling_id |-> sibling_id, sibling_point |-> sibling_point,
   in_out |-> FALSE, other_in_out |-> FALSE, in_result |-> FALSE,
   prev_in_result |-> None, edge_coincidence_type |-> NoCoincidence,
   source_edge |-> source_edge]

\* A faulty variant of EdgeCoincidenceType::in_result: SameTransition is in
\* the result for XOR as well.
coincidence_in_result_xor(type, operation) ==
  CASE type = DuplicateCoincidence -> FALSE
    [] type = SameTransition -> operation \in {Intersection, Union, XOR}
    [] type = DifferentTransition -> operation = Difference
    [] OTHER -> FALSE

\* EdgeCoincidenceType::in_result (NoCoincidence panics; callers never pass it).
coincidence_in_result(type, operation) ==
  CASE type = DuplicateCoincidence -> FALSE
    [] type = SameTransition -> operation \in {Intersection, Union}
    [] type = DifferentTransition -> operation = Difference
    [] OTHER -> FALSE

\* Event::in_result
in_result(event, relation, operation) ==
  IF relation.edge_coincidence_type # NoCoincidence
    THEN coincidence_in_result(relation.edge_coincidence_type, operation)
  ELSE CASE operation = Intersection -> ~relation.other_in_out
         [] operation = Union -> relation.other_in_out
         [] operation = Difference ->
              (event.is_subject = relation.other_in_out)
         [] OTHER -> TRUE

\* Event::result_in_out
result_in_out(event, relation, operation) ==
  LET is_inside_self == ~relation.in_out
      is_inside_other == ~relation.other_in_out
      result_out_in ==
        CASE operation = Intersection -> is_inside_self /\ is_inside_other
          [] operation = Union -> is_inside_self \/ is_inside_other
          [] operation = Difference ->
               (IF event.is_subject
                  THEN is_inside_self /\ ~is_inside_other
                  ELSE ~is_inside_self /\ is_inside_other)
          [] OTHER -> is_inside_self # is_inside_other
  IN ~result_out_in

-----------------------------------------------------------------------------
(* The sweep state threaded through split_edge and check_for_intersection: *)
(* the event table, the ids in the event queue and the relation table.     *)

SweepState(evs, queue, rels) ==
  [events |-> evs, event_queue |-> queue, event_relations |-> rels]

EventOf(st, id) == st.events[id + 1]
RelOf(st, id) == st.event_relations[id + 1]

\* A faulty variant of split_edge: the relation of the former right sibling
\* is left as it was.
split_edge_sibling_kept(st, edge_event, point) ==
  LET relation == RelOf(st, edge_event.event_id)
      sibling_id == relation.sibling_id
      split_1_id == Len(st.event_relations)
      split_2_id == Len(st.event_relations) + 1
      e1 == Event(split_1_id, point, FALSE, edge_event.is_subject,
                  edge_event.point)
      e2 == Event(split_2_id, point, TRUE, edge_event.is_subject,
                  edge_event.other_point)
      r1 == EventRelation(edge_event.event_id, edge_event.point,
                          relation.source_edge)
      r2 == EventRelation(sibling_id, relation.sibling_point,
                          relation.source_edge)
      pushed == st.event_relations \o <<r1, r2>>
      rels1 == [pushed EXCEPT ![edge_event.event_id + 1] =
                  [@ EXCEPT !.sibling_id = split_1_id,
                            !.sibling_point = point]]
  IN SweepState(st.events \o <<e1, e2>>,
                st.event_queue \cup {split_1_id, split_2_id},
                rels1)

\* A faulty variant of split_edge: the two new relations get a default
\* source tag instead of the tag of the edge.
split_edge_untagged(st, edge_event, point) ==
  LET relation == RelOf(st, edge_event.event_id)
      sibling_id == relation.sibling_id
      split_1_id == Len(st.event_relations)
      split_2_id == Len(st.event_relations) + 1
      e1 == Event(split_1_id, point, FALSE, edge_event.is_subject,
                  edge_event.point)
      e2 == Event(split_2_id, point, TRUE, edge_event.is_subject,
                  edge_event.other_point)
      r1 == EventRelation(edge_event.event_id, edge_event.point,
                          SourceEdge(FALSE, 0, 0))
      r2 == EventRelation(sibling_id, relation.sibling_point,
                          SourceEdge(FALSE, 0, 0))
      pushed == st.event_relations \o <<r1, r2>>
      rels1 == [pushed EXCEPT ![edge_event.event_id + 1] =
                  [@ EXCEPT !.sibling_id = split_1_id,
                            !.sibling_point = point]]
      rels2 == [rels1 EXCEPT ![sibling_id + 1] =
                  [@ EXCEPT !.sibling_id = split_2_id,
                            !.sibling_point = point]]
  IN SweepState(st.events \o <<e1, e2>>,
                st.event_queue \cup {split_1_id, split_2_id},
                rels2)

\* A faulty variant of split_edge: the two new events are put at the left
\* end of the edge, not at the point of the split.
split_edge_at_start(st, edge_event, point) ==
  LET relation == RelOf(st, edge_event.event_id)
      sibling_id == relation.sibling_id
      split_1_id == Len(st.event_relations)
      split_2_id == Len(st.event_relations) + 1
      e1 == Event(split_1_id, edge_event.point, FALSE, edge_event.is_subject,
                  edge_event.point)
      e2 == Event(split_2_id, edge_event.point, TRUE, edge_event.is_subject,
                  edge_event.other_point)
      r1 == EventRelation(edge_event.event_id, edge_event.point,
                          relation.source_edge)
      r2 == EventRelation(sibling_id, relation.sibling_point,
                          relation.source_edge)
      pushed == st.event_relations \o <<r1, r2>>
      rels1 == [pushed EXCEPT ![edge_event.event_id + 1] =
                  [@ EXCEPT !.sibling_id = split_1_id,
                            !.sibling_point = point]]
      rels2 == [rels1 EXCEPT ![sibling_id + 1] =
                  [@ EXCEPT !.sibling_id = split_2_id,
                            !.sibling_point = point]]
  IN SweepState(st.events \o <<e1, e2>>,
                st.event_queue \cup {split_1_id, split_2_id},
                rels2)

\* split_edge: returns the state after the split; the function's return
\* value (split_2_id) is Len(st.event_relations) + 1 of the state before.
split_edge(st, edge_event, point) ==
  LET relation == RelOf(st, edge_event.event_id)
      sibling_id == relation.sibling_id
      split_1_id == Len(st.event_relations)
      split_2_id == Len(st.event_relations) + 1
      e1 == Event(split_1_id, point, FALSE, edge_event.is_subject,
                  edge_event.point)
      e2 == Event(split_2_id, point, TRUE, edge_event.is_subject,
                  edge_event.other_point)
      r1 == EventRelation(edge_event.event_id, edge_event.point,
                          relation.source_edge)
      r2 == EventRelation(sibling_id, relation.sibling_point,
                          relation.source_edge)
      pushed == st.event_relations \o <<r1, r2>>
      rels1 == [pushed EXCEPT ![edge_event.event_id + 1] =
                  [@ EXCEPT !.sibling_id = split_1_id,
                            !.sibling_point = point]]
      rels2 == [rels1 EXCEPT ![sibling_id + 1] =
                  [@ EXCEPT !.sibling_id = split_2_id,
                            !.sibling_point = point]]
  IN SweepState(st.events \o <<e1, e2>>,
                st.event_queue \cup {split_1_id, split_2_id},
                rels2)

split_2_id_of(st) == Len(st.event_relations) + 1

\* check_for_intersection, PointIntersection arm: split each edge unless the
\* point is one of its end points.
split_at_point(st, new_event, existing_event, point) ==
  LET st1 == IF /\ point # new_event.point
                /\ point # RelOf(st, new_event.event_id).sibling_point
               THEN split_edge(st, new_event, point)
               ELSE st
  IN IF /\ point # existing_event.point
        /\ point # RelOf(st1, existing_event.event_id).sibling_point
       THEN split_edge(st1, existing_event, point)
       ELSE st1

\* check_for_intersection, LineIntersection arm, one of the two matches on
\* (start == event.point, end == sibling_point): the splits of `event` and
\* the id of its fragment that spans [start, end].
split_coincident(st, event, start, end) ==
  LET at_start == (start = event.point)
      at_end == (end = RelOf(st, event.event_id).sibling_point)
  IN CASE at_start /\ at_end ->
            [state |-> st, coincident_event_id |-> event.event_id]
       [] ~at_start /\ ~at_end ->
            LET st1 == split_edge(st, event, end)
            IN [state |-> split_edge(st1, event, start),
                coincident_event_id |-> split_2_id_of(st1)]
       [] at_start /\ ~at_end ->
            [state |-> split_edge(st, event, end),
             coincident_event_id |-> event.event_id]
       [] OTHER ->
            [state |-> split_edge(st, event, start),
             coincident_event_id |-> split_2_id_of(st)]

\* A faulty variant of the tagging: same_transition is taken from the
\* other_in_out flags of the two events.
mark_coincident_other(rels, new_event, existing_event, new_id, existing_id, op) ==
  LET same_transition ==
        rels[new_event.event_id + 1].other_in_out
          = rels[existing_event.event_id + 1].other_in_out
      rels1 == [rels EXCEPT ![new_id + 1].prev_in_result =
                  rels[existing_event.event_id + 1].prev_in_result]
      primary == IF rels1[existing_id + 1].in_result
                   THEN existing_id ELSE new_id
      duplicate == IF rels1[existing_id + 1].in_result
                     THEN new_id ELSE existing_id
      new_subject == rels1[new_event.event_id + 1].source_edge.is_from_subject
      existing_subject ==
        rels1[existing_event.event_id + 1].source_edge.is_from_subject
      source_edge ==
        IF new_subject
          THEN rels1[new_event.event_id + 1].source_edge
          ELSE rels1[existing_event.event_id + 1].source_edge
      rels2 == IF new_subject # existing_subject
                 THEN [rels1 EXCEPT ![primary + 1].source_edge = source_edge]
                 ELSE rels1
      rels3 == IF new_subject # existing_subject
                 THEN [rels2 EXCEPT
                         ![rels2[primary + 1].sibling_id + 1].source_edge =
                           source_edge]
                 ELSE rels2
      type == IF same_transition THEN SameTransition ELSE DifferentTransition
      rels4 == [rels3 EXCEPT ![primary + 1] =
                  [@ EXCEPT !.edge_coincidence_type = type,
                            !.in_result = coincidence_in_result(type,
                                                                op)]]
  IN [rels4 EXCEPT ![duplicate + 1] =
        [@ EXCEPT !.edge_coincidence_type = DuplicateCoincidence,
                  !.in_result = FALSE]]

\* mark_coincident without the copy of prev_in_result to the new fragment.
mark_coincident_keeps_prev(rels, new_event, existing_event, new_id, existing_id, op) ==
  LET same_transition ==
        rels[new_event.event_id + 1].in_out
          = rels[existing_event.event_id + 1].in_out
      rels1 == rels
      primary == IF rels1[existing_id + 1].in_result
                   THEN existing_id ELSE new_id
      duplicate == IF rels1[existing_id + 1].in_result
                     THEN new_id ELSE existing_id
      new_subject == rels1[new_event.event_id + 1].source_edge.is_from_subject
      existing_subject ==
        rels1[existing_event.event_id + 1].source_edge.is_from_subject
      source_edge ==
        IF new_subject
          THEN rels1[new_event.event_id + 1].source_edge
          ELSE rels1[existing_event.event_id + 1].source_edge
      rels2 == IF new_subject # existing_subject
                 THEN [rels1 EXCEPT ![primary + 1].source_edge = source_edge]
                 ELSE rels1
      rels3 == IF new_subject # existing_subject
                 THEN [rels2 EXCEPT
                         ![rels2[primary + 1].sibling_id + 1].source_edge =
                           source_edge]
                 ELSE rels2
      type == IF same_transition THEN SameTransition ELSE DifferentTransition
      rels4 == [rels3 EXCEPT ![primary + 1] =
                  [@ EXCEPT !.edge_coincidence_type = type,
                            !.in_result = coincidence_in_result(type,
                                                                op)]]
  IN [rels4 EXCEPT ![duplicate + 1] =
        [@ EXCEPT !.edge_coincidence_type = DuplicateCoincidence,
                  !.in_result = FALSE]]

\* check_for_intersection, LineIntersection arm after the splits: the choice
\* of the primary and the duplicate fragment and the tags written to them.
mark_coincident(rels, new_event, existing_event, new_id, existing_id, op) ==
  LET same_transition ==
        rels[new_event.event_id + 1].in_out
          = rels[existing_event.event_id + 1].in_out
      rels1 == [rels EXCEPT ![new_id + 1].prev_in_result =
                  rels[existing_event.event_id + 1].prev_in_result]
      primary == IF rels1[existing_id + 1].in_result
                   THEN existing_id ELSE new_id
      duplicate == IF rels1[existing_id + 1].in_result
                     THEN new_id ELSE existing_id
      new_subject == rels1[new_event.event_id + 1].source_edge.is_from_subject
      existing_subject ==
        rels1[existing_event.event_id + 1].source_edge.is_from_subject
      source_edge ==
        IF new_subject
          THEN rels1[new_event.event_id + 1].source_edge
          ELSE rels1[existing_event.event_id + 1].source_edge
      rels2 == IF new_subject # existing_subject
                 THEN [rels1 EXCEPT ![primary + 1].source_edge = source_edge]
                 ELSE rels1
      rels3 == IF new_subject # existing_subject
                 THEN [rels2 EXCEPT
                         ![rels2[primary + 1].sibling_id + 1].source_edge =
                           source_edge]
                 ELSE rels2
      type == IF same_transition THEN SameTransition ELSE DifferentTransition
      rels4 == [rels3 EXCEPT ![primary + 1] =
                  [@ EXCEPT !.edge_coincidence_type = type,
                            !.in_result = coincidence_in_result(type,
                                                                op)]]
  IN [rels4 EXCEPT ![duplicate + 1] =
        [@ EXCEPT !.edge_coincidence_type = DuplicateCoincidence,
                  !.in_result = FALSE]]

\* The arms of the match in check_for_intersection, on the answer hit of
\* edge_intersection.
check_for_intersection_match(st, new_event, existing_event, operation, hit) ==
  CASE hit.kind = "NoIntersection" -> st
    [] hit.kind = "PointIntersection" ->
         split_at_point(st, new_event, existing_event, hit.start)
    [] OTHER ->
         LET n == split_coincident(st, new_event, hit.start, hit.end)
             x == split_coincident(n.state, existing_event,
                                   hit.start, hit.end)
         IN SweepState(x.state.events, x.state.event_queue,
              mark_coincident(x.state.event_relations, new_event,
                              existing_event, n.coincident_event_id,
                              x.coincident_event_id, operation))

\* check_for_intersection
check_for_intersection(st, new_event, existing_event, operation) ==
  check_for_intersection_match(st, new_event, existing_event, operation,
    edge_intersection(
      <<new_event.point, RelOf(st, new_event.event_id).sibling_point>>,
      <<existing_event.point,
        RelOf(st, existing_event.event_id).sibling_point>>))

\* A faulty variant of set_information: without an edge below, the other
\* polygon is taken to be entered.
set_information_bottom_inside(st, event, prev_id, operation) ==
  LET event_relation == RelOf(st, event.event_id)
      prev_event == EventOf(st, prev_id)
      prev_event_relation == RelOf(st, prev_id)
      flagged ==
        IF prev_id = None
          THEN [event_relation EXCEPT !.in_out = FALSE, !.other_in_out = FALSE]
        ELSE IF event.is_subject = prev_event.is_subject
          THEN [event_relation EXCEPT
                  !.in_out = ~prev_event_relation.in_out,
                  !.other_in_out = prev_event_relation.other_in_out,
                  !.prev_in_result =
                    IF prev_event_relation.in_result
                       /\ ~is_vertical(prev_event)
                      THEN prev_event.event_id
                      ELSE prev_event_relation.prev_in_result]
        ELSE [event_relation EXCEPT
                !.in_out = ~prev_event_relation.other_in_out,
                !.other_in_out =
                  IF ~is_vertical(prev_event)
                    THEN prev_event_relation.in_out
                    ELSE ~prev_event_relation.in_out,
                !.prev_in_result =
                  IF prev_event_relation.in_result /\ ~is_vertical(prev_event)
                    THEN prev_event.event_id
                    ELSE prev_event_relation.prev_in_result]
  IN [flagged EXCEPT !.in_result = in_result(event, flagged, operation)]

\* set_information: the relation of `event` after the call; prev_id is the
\* id of the event below it in the sweep line, or None.
set_information(st, event, prev_id, operation) ==
  LET event_relation == RelOf(st, event.event_id)
      prev_event == EventOf(st, prev_id)
      prev_event_relation == RelOf(st, prev_id)
      flagged ==
        IF prev_id = None
          THEN [event_relation EXCEPT !.in_out = FALSE, !.other_in_out = TRUE]
        ELSE IF event.is_subject = prev_event.is_subject
          THEN [event_relation EXCEPT
                  !.in_out = ~prev_event_relation.in_out,
                  !.other_in_out = prev_event_relation.other_in_out,
                  !.prev_in_result =
                    IF prev_event_relation.in_result
                       /\ ~is_vertical(prev_event)
                      THEN prev_event.event_id
                      ELSE prev_event_relation.prev_in_result]
        ELSE [event_relation EXCEPT
                !.in_out = ~prev_event_relation.other_in_out,
                !.other_in_out =
                  IF ~is_vertical(prev_event)
                    THEN prev_event_relation.in_out
                    ELSE ~prev_event_relation.in_out,
                !.prev_in_result =
                  IF prev_event_relation.in_result /\ ~is_vertical(prev_event)
                    THEN prev_event.event_id
                    ELSE prev_event_relation.prev_in_result]
  IN [flagged EXCEPT !.in_result = in_result(event, flagged, operation)]

-----------------------------------------------------------------------------
(* Polygon and the fast path of perform_boolean *)

\* The vertices of a polygon, contour after contour.
RECURSIVE Flatten(_)
Flatten(contours) ==
  IF contours = <<>> THEN <<>>
  ELSE Head(contours) \o Flatten(Tail(contours))

SeqMin(f) == CHOOSE x \in {f[i] : i \in DOMAIN f} :
               \A i \in DOMAIN f : x <= f[i]
SeqMax(f) == CHOOSE x \in {f[i] : i \in DOMAIN f} :
               \A i \in DOMAIN f : x >= f[i]

\* Polygon::compute_bounds: Some((min, max)), or None without vertices.
compute_bounds(polygon) ==
  LET points == Flatten(polygon)
      xs == [i \in DOMAIN points |-> points[i][1]]
      ys == [i \in DOMAIN points |-> points[i][2]]
  IN IF points = <<>>
       THEN [some |-> FALSE, min |-> Vec2(0, 0), max |-> Vec2(0, 0)]
       ELSE [some |-> TRUE, min |-> Vec2(SeqMin(xs), SeqMin(ys)),
             max |-> Vec2(SeqMax(xs), SeqMax(ys))]

BooleanResult(contours, contour_source_edges) ==
  [contours |-> contours, contour_source_edges |-> contour_source_edges]

EmptyResult == BooleanResult(<<>>, <<>>)

\* polygon_to_boolean_result
polygon_to_boolean_result(polygon, is_subject) ==
  BooleanResult(polygon,
    [contour_index \in DOMAIN polygon |->
       [index \in DOMAIN polygon[contour_index] |->
          SourceEdge(is_subject, contour_index - 1, index - 1)]])

\* The test of the last arm of the match in perform_boolean: the two
\* bounding boxes are strictly separated on x or on y.
bounds_separated(subject_bounds, clip_bounds) ==
  \/ subject_bounds.max[1] < clip_bounds.min[1]
  \/ subject_bounds.max[2] < clip_bounds.min[2]
  \/ clip_bounds.max[1] < subject_bounds.min[1]
  \/ clip_bounds.max[2] < subject_bounds.min[2]

\* perform_boolean returns from the match on the bounds, without a sweep.
is_trivial(subject, clip) ==
  \/ ~compute_bounds(subject).some
  \/ ~compute_bounds(clip).some
  \/ bounds_separated(compute_bounds(subject), compute_bounds(clip))

\* A faulty variant of trivial_result: for separated boxes union and xor
\* put the clip's contours before the subject's.
trivial_result_clip_first(subject, clip, operation) ==
  LET subject_bounds == compute_bounds(subject)
      clip_bounds == compute_bounds(clip)
      subject_result == polygon_to_boolean_result(subject, TRUE)
      clip_result == polygon_to_boolean_result(clip, FALSE)
  IN IF ~subject_bounds.some /\ ~clip_bounds.some THEN EmptyResult
     ELSE IF ~clip_bounds.some
       THEN (IF operation = Intersection THEN EmptyResult
             ELSE subject_result)
     ELSE IF ~subject_bounds.some
       THEN (IF operation \in {Intersection, Difference} THEN EmptyResult
             ELSE clip_result)
     ELSE (CASE operation = Intersection -> EmptyResult
             [] operation = Difference -> subject_result
             [] OTHER ->
                  BooleanResult(
                    clip_result.contours \o subject_result.contours,
                    clip_result.contour_source_edges
                      \o subject_result.contour_source_edges))

\* The result returned by the match on the bounds when is_trivial holds.
trivial_result(subject, clip, operation) ==
  LET subject_bounds == compute_bounds(subject)
      clip_bounds == compute_bounds(clip)
      subject_result == polygon_to_boolean_result(subject, TRUE)
      clip_result == polygon_to_boolean_result(clip, FALSE)
  IN IF ~subject_bounds.some /\ ~clip_bounds.some THEN EmptyResult
     ELSE IF ~clip_bounds.some
       THEN (IF operation = Intersection THEN EmptyResult
             ELSE subject_result)
     ELSE IF ~subject_bounds.some
       THEN (IF operation \in {Intersection, Difference} THEN EmptyResult
             ELSE clip_result)
     ELSE (CASE operation = Intersection -> EmptyResult
             [] operation = Difference -> subject_result
             [] OTHER ->
                  BooleanResult(
                    subject_result.contours \o clip_result.contours,
                    subject_result.contour_source_edges
                      \o clip_result.contour_source_edges))

-----------------------------------------------------------------------------
(* create_events_for_polygon *)

\* A faulty variant of the loop body: the edge is tagged with the index of
\* its second point.
create_events_for_edge_far_tag(st, polygon, is_subject, contour_index, point_index) ==
  LET contour == polygon[contour_index + 1]
      next_point_index ==
        IF point_index = Len(contour) - 1 THEN 0 ELSE point_index + 1
      point_1 == contour[point_index + 1]
      point_2 == contour[next_point_index + 1]
      order == lex_order_points(point_1, point_2)
      event_id_1 == Len(st.event_relations)
      event_id_2 == Len(st.event_relations) + 1
      source_edge == SourceEdge(is_subject, contour_index, next_point_index)
  IN IF order = Equal THEN st
     ELSE SweepState(
            st.events \o
              <<Event(event_id_1, point_1, order = Less, is_subject, point_2),
                Event(event_id_2, point_2, order = Greater, is_subject,
                      point_1)>>,
            st.event_queue \cup {event_id_1, event_id_2},
            st.event_relations \o
              <<EventRelation(event_id_2, point_2, source_edge),
                EventRelation(event_id_1, point_1, source_edge)>>)

\* The loop body for the edge that starts at point_index of contour_index
\* (both counted from 0).
create_events_for_edge(st, polygon, is_subject, contour_index, point_index) ==
  LET contour == polygon[contour_index + 1]
      next_point_index ==
        IF point_index = Len(contour) - 1 THEN 0 ELSE point_index + 1
      point_1 == contour[point_index + 1]
      point_2 == contour[next_point_index + 1]
      order == lex_order_points(point_1, point_2)
      event_id_1 == Len(st.event_relations)
      event_id_2 == Len(st.event_relations) + 1
      source_edge == SourceEdge(is_subject, contour_index, point_index)
  IN IF order = Equal THEN st
     ELSE SweepState(
            st.events \o
              <<Event(event_id_1, point_1, order = Less, is_subject, point_2),
                Event(event_id_2, point_2, order = Greater, is_subject,
                      point_1)>>,
            st.event_queue \cup {event_id_1, event_id_2},
            st.event_relations \o
              <<EventRelation(event_id_2, point_2, source_edge),
                EventRelation(event_id_1, point_1, source_edge)>>)

RECURSIVE create_events_from(_, _, _, _, _)
create_events_from(st, polygon, is_subject, contour_index, point_index) ==
  IF contour_index >= Len(polygon) THEN st
  ELSE IF point_index >= Len(polygon[contour_index + 1])
    THEN create_events_from(st, polygon, is_subject, contour_index + 1, 0)
  ELSE create_events_from(
         create_events_for_edge(st, polygon, is_subject, contour_index,
                                point_index),
         polygon, is_subject, contour_index, point_index + 1)

create_events_for_polygon(st, polygon, is_subject) ==
  create_events_from(st, polygon, is_subject, 0, 0)

-----------------------------------------------------------------------------
(* The sweep line: a Vec kept sorted by SweepCmp; the model keeps ids. *)

\* slice::binary_search on the sweep line with `target` as the probe:
\* [found, pos] as Ok(pos) / Err(pos); unreachable is set when a
\* comparison reaches the unreachable!() of SweepLineEvent::partial_cmp.
RECURSIVE binary_search(_, _, _, _, _)
binary_search(evs, line, target, left, right) ==
  IF left >= right
    THEN [found |-> FALSE, pos |-> left, unreachable |-> FALSE]
  ELSE LET mid == left + ((right - left) \div 2)
           cmp == SweepCmp(evs[line[mid + 1] + 1], target)
       IN CASE cmp = Unreachable ->
                 [found |-> FALSE, pos |-> mid, unreachable |-> TRUE]
            [] cmp = Equal ->
                 [found |-> TRUE, pos |-> mid, unreachable |-> FALSE]
            [] cmp = Less -> binary_search(evs, line, target, mid + 1, right)
            [] OTHER -> binary_search(evs, line, target, left, mid)

\* A faulty variant of Vec::insert: the new entry is put at the end.
InsertAtEnd(line, pos, x) == Append(line, x)

\* Vec::insert and Vec::remove at a position counted from 0.
InsertAt(line, pos, x) ==
  SubSeq(line, 1, pos) \o <<x>> \o SubSeq(line, pos + 1, Len(line))
RemoveAt(line, pos) ==
  SubSeq(line, 1, pos) \o SubSeq(line, pos + 2, Len(line))

\* order_sibling
order_sibling(event, event_relation) ==
  Event(event_relation.sibling_id, event_relation.sibling_point, TRUE,
        event.is_subject, event.point)

\* BinaryHeap::pop on Reverse<Event>: the least event of the queue.
pop_event(evs, queue) ==
  CHOOSE id \in queue :
    \A other \in queue : EventCmp(evs[id + 1], evs[other + 1]) # Greater

-----------------------------------------------------------------------------
(* A run of perform_boolean.  The record holds the arguments, the position *)
(* in the code (pc), the message of the panic that ended the run (fatal),  *)
(* and the locals of perform_boolean, subdivide_edges, join_contours and   *)
(* compute_contour.  debug_assertions tells whether the build keeps the    *)
(* debug_assert! checks of compute_contour (a debug build) or compiles     *)
(* them out (a release build).  contour_depths records, for every emitted  *)
(* contour, the depth join_contours computed for it.                       *)

\* The locals of compute_contour while no contour is being walked.
NoWalk ==
  [start_event |-> None, current_event |-> None, contour |-> <<>>,
   contour_source_edges |-> <<>>, contour_id |-> 0, depth |-> 0,
   parent_contour_id |-> None]

\* The state at the call of perform_boolean.
InitialRun(subject, clip, operation, debug_assertions) ==
  [subject |-> subject, clip |-> clip, operation |-> operation,
   debug_assertions |-> debug_assertions,
   pc |-> "perform_boolean", fatal |-> "",
   events |-> <<>>, event_queue |-> {}, event_relations |-> <<>>,
   sweep_line |-> <<>>, result |-> <<>>,
   event_id_to_contour_flags |-> <<>>, result_index |-> 0,
   contours |-> <<>>, contour_source_edges |-> <<>>,
   contour_depths |-> <<>>, walk |-> NoWalk]

\* A panic: the run stops where it is.
Panic(r, message) == [r EXCEPT !.pc = "panic", !.fatal = message]

StateOf(r) == SweepState(r.events, r.event_queue, r.event_relations)

WithState(r, st) ==
  [r EXCEPT !.events = st.events, !.event_queue = st.event_queue,
            !.event_relations = st.event_relations]

\* perform_boolean, the return from the match on the bounds.
return_trivial(r) ==
  LET res == trivial_result(r.subject, r.clip, r.operation)
  IN [r EXCEPT !.pc = "done", !.contours = res.contours,
               !.contour_source_edges = res.contour_source_edges,
               !.contour_depths = [i \in DOMAIN res.contours |-> 0]]

\* perform_boolean, the two calls of create_events_for_polygon.
create_events(r) ==
  LET st1 == create_events_for_polygon(StateOf(r), r.subject, TRUE)
      st2 == create_events_for_polygon(st1, r.clip, FALSE)
  IN [WithState(r, st2) EXCEPT !.pc = "subdivide_edges"]

\* subdivide_edges, the end of the loop body.
push_if_in_result(r, event) ==
  IF r.event_relations[event.event_id + 1].in_result
    THEN [r EXCEPT !.result = Append(@, event.event_id)]
    ELSE r

\* subdivide_edges, the check of a left event against the entry below it;
\* `line` is the sweep line after the insertion at pos.
check_below(st, event, line, pos, operation) ==
  IF pos = 0 THEN st
  ELSE check_for_intersection(st, event, EventOf(st, line[pos]), operation)

\* subdivide_edges, the check of a left event against the entry above it.
check_above(st, event, line, pos, operation) ==
  IF pos + 1 < Len(line)
    THEN check_for_intersection(st, event, EventOf(st, line[pos + 2]),
                                operation)
    ELSE st

\* subdivide_edges, the checks of a left event against the entries below
\* and above it, in this order.
check_neighbours(st, event, line, pos, operation) ==
  check_above(check_below(st, event, line, pos, operation), event, line, pos,
              operation)

\* subdivide_edges, the loop body for a left event.
process_left_event(r, event) ==
  LET popped == [r EXCEPT !.event_queue = @ \ {event.event_id}]
      search == binary_search(r.events, r.sweep_line, event, 0,
                              Len(r.sweep_line))
      pos == search.pos
      line == InsertAt(r.sweep_line, pos, event.event_id)
      prev_id == IF pos = 0 THEN None ELSE line[pos]
      informed ==
        [popped EXCEPT
           !.sweep_line = line,
           !.event_relations[event.event_id + 1] =
             set_information(StateOf(popped), event, prev_id, r.operation)]
  IN IF search.unreachable
       THEN Panic(r, "internal error: entered unreachable code")
     ELSE IF search.found
       THEN Panic(r, "event is new and must be inserted")
     ELSE IF prev_id = event.event_id
       THEN Panic(r, "internal error: entered unreachable code")
     ELSE push_if_in_result(
            WithState(informed,
                      check_neighbours(StateOf(informed), event, line, pos,
                                       r.operation)),
            event)

\* A faulty variant of the loop body for a right event: in_result is not
\* copied from the sibling.
process_right_event_no_copy(r, event) ==
  LET popped == [r EXCEPT !.event_queue = @ \ {event.event_id}]
      search == binary_search(r.events, r.sweep_line,
                  order_sibling(event,
                                popped.event_relations[event.event_id + 1]),
                  0, Len(r.sweep_line))
      pos == search.pos
      line == RemoveAt(r.sweep_line, pos)
      removed == [popped EXCEPT !.sweep_line = line]
  IN IF search.unreachable
       THEN Panic(r, "internal error: entered unreachable code")
     ELSE IF ~search.found
       THEN Panic(r, "this is a right event, so the left event must have already been inserted.")
     ELSE push_if_in_result(
            WithState(removed,
                      IF 0 < pos /\ pos < Len(line)
                        THEN check_for_intersection(StateOf(removed),
                               EventOf(removed, line[pos]),
                               EventOf(removed, line[pos + 1]), r.operation)
                        ELSE StateOf(removed)),
            event)

\* subdivide_edges, the loop body for a right event.
process_right_event(r, event) ==
  LET popped ==
        [r EXCEPT
           !.event_queue = @ \ {event.event_id},
           !.event_relations[event.event_id + 1].in_result =
             r.event_relations[
               r.event_relations[event.event_id + 1].sibling_id + 1].in_result]
      search == binary_search(r.events, r.sweep_line,
                  order_sibling(event,
                                popped.event_relations[event.event_id + 1]),
                  0, Len(r.sweep_line))
      pos == search.pos
      line == RemoveAt(r.sweep_line, pos)
      removed == [popped EXCEPT !.sweep_line = line]
  IN IF search.unreachable
       THEN Panic(r, "internal error: entered unreachable code")
     ELSE IF ~search.found
       THEN Panic(r, "this is a right event, so the left event must have already been inserted.")
     ELSE push_if_in_result(
            WithState(removed,
                      IF 0 < pos /\ pos < Len(line)
                        THEN check_for_intersection(StateOf(removed),
                               EventOf(removed, line[pos]),
                               EventOf(removed, line[pos + 1]), r.operation)
                        ELSE StateOf(removed)),
            event)

\* Vec::retain on the result list.
RECURSIVE retain_in_result(_, _)
retain_in_result(result, rels) ==
  IF result = <<>> THEN <<>>
  ELSE IF rels[Head(result) + 1].in_result
    THEN <<Head(result)>> \o retain_in_result(Tail(result), rels)
    ELSE retain_in_result(Tail(result), rels)

EventContourFlags(result_id, in_out) ==
  [result_id |-> result_id, result_in_out |-> in_out, contour_id |-> 0,
   parent_id |-> None, processed |-> FALSE, depth |-> 0]

\* join_contours, the construction of the HashMap from event ids to flags.
collect_contour_flags(result_events, evs, rels, operation) ==
  [id \in {result_events[i] : i \in DOMAIN result_events} |->
     EventContourFlags(
       (CHOOSE i \in DOMAIN result_events :
          /\ result_events[i] = id
          /\ \A j \in DOMAIN result_events :
               result_events[j] = id => j <= i) - 1,
       result_in_out(evs[id + 1], rels[id + 1], operation))]

\* The end of subdivide_edges (the retain) and the start of join_contours.
filter_result(r) ==
  LET result_events == retain_in_result(r.result, r.event_relations)
  IN [r EXCEPT
        !.pc = "join_contours",
        !.result = result_events,
        !.event_id_to_contour_flags =
          collect_contour_flags(result_events, r.events, r.event_relations,
                                r.operation),
        !.result_index = 0]

-----------------------------------------------------------------------------
(* join_contours and compute_contour *)

\* Vec::reverse
Reverse(q) == [i \in DOMAIN q |-> q[Len(q) + 1 - i]]

\* compute_depth: <<depth, parent>>; the caller checks that the key
\* prev_in_result is in the map (indexing a HashMap with a missing key
\* panics).
compute_depth(event, rels, contour_flags) ==
  LET prev_in_result == rels[event.event_id + 1].prev_in_result
      prev_contour_flags == contour_flags[prev_in_result]
  IN IF prev_in_result = None THEN <<0, None>>
     ELSE IF ~prev_contour_flags.result_in_out
       THEN <<prev_contour_flags.depth + 1, prev_contour_flags.contour_id>>
     ELSE <<prev_contour_flags.depth, prev_contour_flags.parent_id>>

\* event_to_sibling_and_mark: the flags after the sibling of `event` is
\* stamped; the event returned is result_events[flags[sibling].result_id].
mark_sibling(contour_flags, rels, event_id, contour_id, depth, parent_id) ==
  [contour_flags EXCEPT ![rels[event_id + 1].sibling_id] =
     [@ EXCEPT !.processed = TRUE, !.contour_id = contour_id,
               !.depth = depth, !.parent_id = parent_id]]

\* event_to_sibling_and_mark applied to the run: the walk moves to the
\* sibling of `event_id`; get_mut(&sibling_id).unwrap() panics on a miss.
event_to_sibling_and_mark(r, event_id) ==
  LET sibling_id == r.event_relations[event_id + 1].sibling_id
      w == r.walk
  IN IF sibling_id \notin DOMAIN r.event_id_to_contour_flags
       THEN Panic(r, "called Option::unwrap() on a None value")
       ELSE [r EXCEPT
               !.event_id_to_contour_flags =
                 mark_sibling(@, r.event_relations, event_id, w.contour_id,
                              w.depth, w.parent_contour_id),
               !.walk.current_event =
                 r.result[r.event_id_to_contour_flags[sibling_id].result_id
                          + 1]]

\* join_contours, the loop body for an unprocessed result event: the call
\* of compute_depth and compute_contour up to its while loop.
start_contour(r) ==
  LET start_id == r.result[r.result_index + 1]
      start_event == r.events[start_id + 1]
      prev_in_result == r.event_relations[start_id + 1].prev_in_result
      depth == compute_depth(start_event, r.event_relations,
                             r.event_id_to_contour_flags)
      begun ==
        [r EXCEPT
           !.pc = "compute_contour",
           !.walk = [start_event |-> start_id, current_event |-> start_id,
                     contour |-> <<start_event.point>>,
                     contour_source_edges |->
                       <<r.event_relations[start_id + 1].source_edge>>,
                     contour_id |-> Len(r.contours), depth |-> depth[1],
                     parent_contour_id |-> depth[2]]]
  IN IF /\ prev_in_result # None
        /\ prev_in_result \notin DOMAIN r.event_id_to_contour_flags
       THEN Panic(r, "key not found in event_id_to_contour_flags")
       ELSE event_to_sibling_and_mark(begun, start_id)

\* A faulty variant of visit: the point is pushed, the source edge is not.
visit_without_source_edge(r, next_result_id) ==
  LET next_id == r.result[next_result_id + 1]
      visited ==
        [r EXCEPT
           !.event_id_to_contour_flags[next_id].processed = TRUE,
           !.walk.contour = Append(@, r.events[next_id + 1].point)]
  IN event_to_sibling_and_mark(visited, next_id)

\* compute_contour, the step to result_events[next_result_id]: the event is
\* marked processed, its point and source edge are pushed and the walk
\* moves on to its sibling.
visit(r, next_result_id) ==
  LET next_id == r.result[next_result_id + 1]
      visited ==
        [r EXCEPT
           !.event_id_to_contour_flags[next_id].processed = TRUE,
           !.walk.contour = Append(@, r.events[next_id + 1].point),
           !.walk.contour_source_edges =
             Append(@, r.event_relations[next_id + 1].source_edge)]
  IN event_to_sibling_and_mark(visited, next_id)

\* compute_contour, one iteration of the while loop.
walk_step(r) ==
  LET current_event == r.events[r.walk.current_event + 1]
      result_id ==
        r.event_id_to_contour_flags[current_event.event_id].result_id
  IN IF /\ 0 < result_id
        /\ r.events[r.result[result_id] + 1].point = current_event.point
       THEN visit(r, result_id - 1)
     ELSE IF ~(result_id + 1 < Len(r.result))
       THEN (IF r.debug_assertions
               THEN Panic(r, "assertion failed: result_id + 1 < result_events.len()")
               ELSE Panic(r, "index out of bounds"))
     ELSE IF /\ r.debug_assertions
             /\ r.events[r.result[result_id + 2] + 1].point
                  # current_event.point
       THEN Panic(r, "assertion left == right failed")
     ELSE visit(r, result_id + 1)

\* The return of compute_contour and the rest of the loop body of
\* join_contours.
finish_contour(r) ==
  LET w == r.walk
      odd == (w.depth % 2 = 1)
  IN [r EXCEPT
        !.pc = "join_contours",
        !.contours =
          Append(@, IF odd THEN Reverse(w.contour) ELSE w.contour),
        !.contour_source_edges =
          Append(@, IF odd THEN Reverse(w.contour_source_edges)
                    ELSE w.contour_source_edges),
        !.contour_depths = Append(@, w.depth),
        !.result_index = @ + 1,
        !.walk = NoWalk]

\* join_contours, the `continue` for a processed result event.
skip_processed(r) == [r EXCEPT !.result_index = @ + 1]

\* join_contours, the return of the BooleanResult.
return_result(r) == [r EXCEPT !.pc = "done"]

-----------------------------------------------------------------------------
(* The inputs: polygons with even integer coordinates whose edges are      *)
(* axis-parallel or diagonal.  The clip polygon is translated by an even   *)
(* offset, which makes the pairs disjoint, touching, crossing, nested and  *)
(* coincident in turn.                                                     *)

\* The largest translation of the clip polygon, in steps of ShiftStep.
MaxShift == 2
\* The number of points after which a contour walk is no longer followed.
MaxContourPoints == 24

Square == <<<<Vec2(0, 0), Vec2(4, 0), Vec2(4, 4), Vec2(0, 4)>>>>
BigSquare == <<<<Vec2(0, 0), Vec2(8, 0), Vec2(8, 8), Vec2(0, 8)>>>>
SmallSquare == <<<<Vec2(0, 0), Vec2(2, 0), Vec2(2, 2), Vec2(0, 2)>>>>
Diamond == <<<<Vec2(2, 0), Vec2(4, 2), Vec2(2, 4), Vec2(0, 2)>>>>
Triangle == <<<<Vec2(0, 0), Vec2(4, 0), Vec2(0, 4)>>>>
\* A square with a square hole.
Holed == <<<<Vec2(0, 0), Vec2(8, 0), Vec2(8, 8), Vec2(0, 8)>>,
           <<Vec2(2, 2), Vec2(2, 6), Vec2(6, 6), Vec2(6, 2)>>>>
\* Two squares side by side that share the edge from (2, 0) to (2, 2).
TwoSquares == <<<<Vec2(0, 0), Vec2(2, 0), Vec2(2, 2), Vec2(0, 2)>>,
                <<Vec2(2, 0), Vec2(4, 0), Vec2(4, 2), Vec2(2, 2)>>>>
\* A wide rectangle and a square on top of it that share the edge from
\* (0, 2) to (2, 2), which is half of the upper side of the rectangle.
WidePair == <<<<Vec2(0, 0), Vec2(4, 0), Vec2(4, 2), Vec2(0, 2)>>,
              <<Vec2(0, 2), Vec2(2, 2), Vec2(2, 4), Vec2(0, 4)>>>>
\* A triangle with a repeated vertex, followed by an empty contour.
Repeated == <<<<Vec2(0, 0), Vec2(0, 0), Vec2(4, 0), Vec2(0, 4)>>, <<>>>>
\* A polygon without contours.
NoContours == <<>>

Shapes == <<Square, BigSquare, SmallSquare, Diamond, Triangle, Holed,
            TwoSquares, Repeated, NoContours>>

Translate(polygon, dx, dy) ==
  [c \in DOMAIN polygon |->
     [i \in DOMAIN polygon[c] |->
        Vec2(polygon[c][i][1] + dx, polygon[c][i][2] + dy)]]

\* The clip is moved by even amounts, which keeps every intersection point
\* of the catalog on the integer grid.
Shifts == {2 * i : i \in 0..MaxShift}

\* Each shape of the catalog against each translated shape, and WidePair as
\* a subject against the translated small square, which puts three edges
\* on one segment.
Inputs ==
  {<<Shapes[s], Translate(Shapes[c], dx, dy)>> :
     s \in DOMAIN Shapes, c \in DOMAIN Shapes, dx \in Shifts, dy \in Shifts}
  \cup {<<WidePair, Translate(SmallSquare, dx, dy)>> :
           dx \in Shifts, dy \in Shifts}

-----------------------------------------------------------------------------
(* The state machine *)

VARIABLES subject, clip, operation, debug_assertions, pc, fatal, events,
          event_queue, event_relations, sweep_line, result,
          event_id_to_contour_flags, result_index, contours,
          contour_source_edges, contour_depths, walk

vars == <<subject, clip, operation, debug_assertions, pc, fatal, events,
          event_queue, event_relations, sweep_line, result,
          event_id_to_contour_flags, result_index, contours,
          contour_source_edges, contour_depths, walk>>

\* The current state as a run record.
Cur ==
  [subject |-> subject, clip |-> clip, operation |-> operation,
   debug_assertions |-> debug_assertions, pc |-> pc, fatal |-> fatal,
   events |-> events, event_queue |-> event_queue,
   event_relations |-> event_relations, sweep_line |-> sweep_line,
   result |-> result,
   event_id_to_contour_flags |-> event_id_to_contour_flags,
   result_index |-> result_index, contours |-> contours,
   contour_source_edges |-> contour_source_edges,
   contour_depths |-> contour_depths, walk |-> walk]

\* The next state is the run record r.
Becomes(r) ==
  /\ subject' = r.subject
  /\ clip' = r.clip
  /\ operation' = r.operation
  /\ debug_assertions' = r.debug_assertions
  /\ pc' = r.pc
  /\ fatal' = r.fatal
  /\ events' = r.events
  /\ event_queue' = r.event_queue
  /\ event_relations' = r.event_relations
  /\ sweep_line' = r.sweep_line
  /\ result' = r.result
  /\ event_id_to_contour_flags' = r.event_id_to_contour_flags
  /\ result_index' = r.result_index
  /\ contours' = r.contours
  /\ contour_source_edges' = r.contour_source_edges
  /\ contour_depths' = r.contour_depths
  /\ walk' = r.walk

Init ==
  \E input \in Inputs, op \in Operation, debug \in BOOLEAN :
    /\ subject = input[1]
    /\ clip = input[2]
    /\ operation = op
    /\ debug_assertions = debug
    /\ pc = "perform_boolean"
    /\ fatal = ""
    /\ events = <<>>
    /\ event_queue = {}
    /\ event_relations = <<>>
    /\ sweep_line = <<>>
    /\ result = <<>>
    /\ event_id_to_contour_flags = <<>>
    /\ result_index = 0
    /\ contours = <<>>
    /\ contour_source_edges = <<>>
    /\ contour_depths = <<>>
    /\ walk = NoWalk

\* The guards of the steps, on a run record.
at_trivial(r) ==
  r.pc = "perform_boolean" /\ is_trivial(r.subject, r.clip)
at_create_events(r) ==
  r.pc = "perform_boolean" /\ ~is_trivial(r.subject, r.clip)
at_left_event(r) ==
  /\ r.pc = "subdivide_edges"
  /\ r.event_queue # {}
  /\ r.events[pop_event(r.events, r.event_queue) + 1].left
at_right_event(r) ==
  /\ r.pc = "subdivide_edges"
  /\ r.event_queue # {}
  /\ ~r.events[pop_event(r.events, r.event_queue) + 1].left
at_filter_result(r) ==
  r.pc = "subdivide_edges" /\ r.event_queue = {}
at_skip_processed(r) ==
  /\ r.pc = "join_contours"
  /\ r.result_index < Len(r.result)
  /\ r.event_id_to_contour_flags[r.result[r.result_index + 1]].processed
at_start_contour(r) ==
  /\ r.pc = "join_contours"
  /\ r.result_index < Len(r.result)
  /\ ~r.event_id_to_contour_flags[r.result[r.result_index + 1]].processed
at_return_result(r) ==
  r.pc = "join_contours" /\ r.result_index >= Len(r.result)
at_walk_step(r) ==
  /\ r.pc = "compute_contour"
  /\ r.events[r.walk.current_event + 1].point
       # r.events[r.walk.start_event + 1].point
  /\ Len(r.walk.contour) < MaxContourPoints
at_finish_contour(r) ==
  /\ r.pc = "compute_contour"
  /\ r.events[r.walk.current_event + 1].point
       = r.events[r.walk.start_event + 1].point

ReturnTrivial == at_trivial(Cur) /\ Becomes(return_trivial(Cur))

CreateEvents == at_create_events(Cur) /\ Becomes(create_events(Cur))

ProcessLeftEvent ==
  /\ at_left_event(Cur)
  /\ Becomes(process_left_event(Cur,
               events[pop_event(events, event_queue) + 1]))

ProcessRightEvent ==
  /\ at_right_event(Cur)
  /\ Becomes(process_right_event(Cur,
               events[pop_event(events, event_queue) + 1]))

FilterResult == at_filter_result(Cur) /\ Becomes(filter_result(Cur))

SkipProcessed == at_skip_processed(Cur) /\ Becomes(skip_processed(Cur))

StartContour == at_start_contour(Cur) /\ Becomes(start_contour(Cur))

WalkStep == at_walk_step(Cur) /\ Becomes(walk_step(Cur))

FinishContour == at_finish_contour(Cur) /\ Becomes(finish_contour(Cur))

ReturnResult == at_return_result(Cur) /\ Becomes(return_result(Cur))

Next ==
  \/ ReturnTrivial
  \/ CreateEvents
  \/ ProcessLeftEvent
  \/ ProcessRightEvent
  \/ FilterResult
  \/ SkipProcessed
  \/ StartContour
  \/ WalkStep
  \/ FinishContour
  \/ ReturnResult

Spec == Init /\ [][Next]_vars

\* One call of check_for_intersection: the sweep state it is made in and
\* its two event arguments.
Call(st, new_event, existing_event) ==
  [st |-> st, new_event |-> new_event, existing_event |-> existing_event]

\* subdivide_edges, the calls of check_for_intersection in the loop body for
\* a left event, in the order in which they are made.
left_event_calls(r, event) ==
  LET popped == [r EXCEPT !.event_queue = @ \ {event.event_id}]
      search == binary_search(r.events, r.sweep_line, event, 0,
                              Len(r.sweep_line))
      pos == search.pos
      line == InsertAt(r.sweep_line, pos, event.event_id)
      prev_id == IF pos = 0 THEN None ELSE line[pos]
      st == SweepState(popped.events, popped.event_queue,
              [popped.event_relations EXCEPT ![event.event_id + 1] =
                 set_information(StateOf(popped), event, prev_id,
                                 r.operation)])
      st1 == IF pos = 0 THEN st
             ELSE check_for_intersection(st, event, EventOf(st, line[pos]),
                                         r.operation)
  IN IF search.unreachable \/ search.found \/ prev_id = event.event_id
       THEN <<>>
       ELSE (IF pos = 0 THEN <<>>
             ELSE <<Call(st, event, EventOf(st, line[pos]))>>)
            \o (IF pos + 1 < Len(line)
                  THEN <<Call(st1, event, EventOf(st1, line[pos + 2]))>>
                  ELSE <<>>)

\* subdivide_edges, the call of check_for_intersection in the loop body for
\* a right event.
right_event_calls(r, event) ==
  LET popped ==
        [r EXCEPT
           !.event_queue = @ \ {event.event_id},
           !.event_relations[event.event_id + 1].in_result =
             r.event_relations[
               r.event_relations[event.event_id + 1].sibling_id + 1].in_result]
      search == binary_search(r.events, r.sweep_line,
                  order_sibling(event,
                                popped.event_relations[event.event_id + 1]),
                  0, Len(r.sweep_line))
      pos == search.pos
      line == RemoveAt(r.sweep_line, pos)
  IN IF search.unreachable \/ ~search.found THEN <<>>
     ELSE IF 0 < pos /\ pos < Len(line)
       THEN <<Call(StateOf(popped), EventOf(popped, line[pos]),
                   EventOf(popped, line[pos + 1]))>>
     ELSE <<>>

\* The calls of check_for_intersection made by the step r takes next.
check_for_intersection_calls(r) ==
  IF at_left_event(r)
    THEN left_event_calls(r, r.events[pop_event(r.events, r.event_queue) + 1])
  ELSE IF at_right_event(r)
    THEN right_event_calls(r,
           r.events[pop_event(r.events, r.event_queue) + 1])
  ELSE <<>>

-----------------------------------------------------------------------------
(* Geometry used to state the properties *)

\* The input polygon a source edge refers to.
SourcePolygon(source_edge) ==
  IF source_edge.is_from_subject THEN subject ELSE clip

\* The end points of edge i (from 1) of a contour, closed implicitly.
ContourEdge(contour, i) == <<contour[i], contour[(i % Len(contour)) + 1]>>

\* Point p lies on the closed segment from a to b.
OnSegment(p, a, b) ==
  /\ PerpDot(VSub(b, a), VSub(p, a)) = 0
  /\ Min(a[1], b[1]) <= p[1] /\ p[1] <= Max(a[1], b[1])
  /\ Min(a[2], b[2]) <= p[2] /\ p[2] <= Max(a[2], b[2])

\* The segment from p to q lies on the input edge named by source_edge.
LiesOnSource(p, q, source_edge) ==
  LET polygon == SourcePolygon(source_edge)
  IN /\ source_edge.contour + 1 \in DOMAIN polygon
     /\ source_edge.edge + 1 \in DOMAIN polygon[source_edge.contour + 1]
     /\ LET e == ContourEdge(polygon[source_edge.contour + 1],
                             source_edge.edge + 1)
        IN OnSegment(p, e[1], e[2]) /\ OnSegment(q, e[1], e[2])

\* The run went through the sweep and returned.
SweepDone == pc = "done" /\ ~is_trivial(subject, clip)

\* The sign of a number that is not 0.
Sign(a) == IF a < 0 THEN 0 - 1 ELSE 1

\* Twice the signed area of a contour.
RECURSIVE AreaFrom(_, _)
AreaFrom(contour, i) ==
  IF i > Len(contour) THEN 0
  ELSE PerpDot(contour[i], contour[(i % Len(contour)) + 1])
         + AreaFrom(contour, i + 1)
SignedArea2(contour) == AreaFrom(contour, 1)

\* The orientation of c relative to the segment from a to b.
Orient(a, b, c) == Cmp(PerpDot(VSub(b, a), VSub(c, a)), 0)

\* p lies on the segment from a to b and is neither a nor b.
StrictlyInside(p, a, b) == OnSegment(p, a, b) /\ p # a /\ p # b

\* Two segments meet somewhere else than at an end point of both.
MeetBeyondEndpoints(e, f) ==
  \/ /\ Orient(e[1], e[2], f[1]) * Orient(e[1], e[2], f[2]) < 0
     /\ Orient(f[1], f[2], e[1]) * Orient(f[1], f[2], e[2]) < 0
  \/ StrictlyInside(f[1], e[1], e[2])
  \/ StrictlyInside(f[2], e[1], e[2])
  \/ StrictlyInside(e[1], f[1], f[2])
  \/ StrictlyInside(e[2], f[1], f[2])
  \/ (e[1] = f[1] /\ e[2] = f[2])
  \/ (e[1] = f[2] /\ e[2] = f[1])

\* A contour has at least three points, and no two cyclically consecutive
\* points are equal.
WellFormedContour(contour) ==
  /\ Len(contour) >= 3
  /\ \A i \in DOMAIN contour : contour[i] # contour[(i % Len(contour)) + 1]

\* The left events of the fragments that are in the result: both events of
\* the sibling pair have in_result set.
ResultFragments ==
  {id \in 0..(Len(events) - 1) :
     /\ events[id + 1].left
     /\ event_relations[id + 1].in_result
     /\ event_relations[event_relations[id + 1].sibling_id + 1].in_result}

\* The segment of the fragment whose left event is id.
Fragment(id) == <<events[id + 1].point, event_relations[id + 1].sibling_point>>

\* The event queue of a sweep has drained.
Drained ==
  /\ events # <<>>
  /\ event_queue = {}
  /\ pc \in {"subdivide_edges", "join_contours", "compute_contour", "done"}

\* The edges of a polygon, as pairs of end points.
EdgesOf(polygon) ==
  UNION {{ContourEdge(polygon[c], i) : i \in DOMAIN polygon[c]} :
           c \in DOMAIN polygon}

\* The segment from p to q lies on the edge e.
LiesOn(p, q, e) == OnSegment(p, e[1], e[2]) /\ OnSegment(q, e[1], e[2])

-----------------------------------------------------------------------------
(* Properties of one run *)

\* C1: no operation reaches a fatal path: the sweep-line insert never finds
\* an equal entry, the removal finds its entry, no unreachable!() is hit, no
\* index is out of range and no flag lookup misses.
C1_NoFatalPath == pc # "panic"

\* C2: in every returned contour k, contour_source_edges[k][i] names an
\* input edge on which the output edge from points[i] to
\* points[(i + 1) mod n] lies, for shells and for holes.
C2_SourceEdgeOfEachEdge ==
  pc = "done" =>
    \A k \in DOMAIN contours : \A i \in DOMAIN contours[k] :
      /\ k \in DOMAIN contour_source_edges
      /\ i \in DOMAIN contour_source_edges[k]
      /\ LiesOnSource(contours[k][i],
                      contours[k][(i % Len(contours[k])) + 1],
                      contour_source_edges[k][i])

\* C3: a returned BooleanResult has as many source-edge lists as contours,
\* and list i has as many source edges as contour i has points, on the fast
\* path and after a sweep.
C3_SourceEdgesParallelContours ==
  pc = "done" =>
    /\ Len(contour_source_edges) = Len(contours)
    /\ \A k \in DOMAIN contours :
         Len(contour_source_edges[k]) = Len(contours[k])

\* A sweep returned at least one shell and one hole.
C3_Witness ==
  /\ SweepDone
  /\ Len(contours) >= 2
  /\ \E k \in DOMAIN contour_depths : contour_depths[k] % 2 = 1

\* C4: every returned contour has at least three points and no two
\* cyclically consecutive points of it are equal.
C4_ContoursWellFormed ==
  pc = "done" => \A k \in DOMAIN contours : WellFormedContour(contours[k])

\* C5: among the contours a sweep returns, the signed area is never zero,
\* contours of even depth all have one sign (the shell sign) and contours
\* of odd depth all have the opposite sign.
C5_WindingFollowsDepth ==
  SweepDone =>
    \A k \in DOMAIN contours : \A l \in DOMAIN contours :
      /\ SignedArea2(contours[k]) # 0
      /\ (Sign(SignedArea2(contours[k])) = Sign(SignedArea2(contours[l])))
           <=> (contour_depths[k] % 2 = contour_depths[l] % 2)

\* C6: once the event queue has drained, no two fragments that are in the
\* result meet anywhere except at a common end point.
C6_ResultFragmentsOnlyTouch ==
  Drained =>
    \A a \in ResultFragments : \A b \in ResultFragments :
      a # b => ~MeetBeyondEndpoints(Fragment(a), Fragment(b))

\* C7: an edge of the result that lies on both a subject edge and a clip
\* edge is reported with is_from_subject = TRUE and names a subject edge it
\* lies on; both events of a primary coincident fragment carry one tag.
C7_SubjectPreferredOnOverlap ==
  /\ pc = "done" =>
       \A k \in DOMAIN contours : \A i \in DOMAIN contours[k] :
         LET p == contours[k][i]
             q == contours[k][(i % Len(contours[k])) + 1]
         IN (/\ \E e \in EdgesOf(subject) : LiesOn(p, q, e)
             /\ \E e \in EdgesOf(clip) : LiesOn(p, q, e))
            => /\ contour_source_edges[k][i].is_from_subject
               /\ LiesOnSource(p, q, contour_source_edges[k][i])
  /\ \A id \in 0..(Len(events) - 1) :
       event_relations[id + 1].edge_coincidence_type
           \in {SameTransition, DifferentTransition}
         => event_relations[event_relations[id + 1].sibling_id + 1].source_edge
              = event_relations[id + 1].source_edge

-----------------------------------------------------------------------------
(* Whole calls, for the properties that relate two or three calls *)

\* The step the run record r takes next; r itself when it has stopped.
step(r) ==
  IF at_trivial(r) THEN return_trivial(r)
  ELSE IF at_create_events(r) THEN create_events(r)
  ELSE IF at_left_event(r)
    THEN process_left_event(r, r.events[pop_event(r.events, r.event_queue) + 1])
  ELSE IF at_right_event(r)
    THEN process_right_event(r, r.events[pop_event(r.events, r.event_queue) + 1])
  ELSE IF at_filter_result(r) THEN filter_result(r)
  ELSE IF at_skip_processed(r) THEN skip_processed(r)
  ELSE IF at_start_contour(r) THEN start_contour(r)
  ELSE IF at_walk_step(r) THEN walk_step(r)
  ELSE IF at_finish_contour(r) THEN finish_contour(r)
  ELSE IF at_return_result(r) THEN return_result(r)
  ELSE r

\* r has returned, has panicked, or walks a contour that does not close
\* within MaxContourPoints points.
stopped(r) ==
  \/ r.pc \in {"done", "panic"}
  \/ (r.pc = "compute_contour" /\ ~at_walk_step(r) /\ ~at_finish_contour(r))

RECURSIVE run_to_end(_)
run_to_end(r) == IF stopped(r) THEN r ELSE run_to_end(step(r))

\* The call perform_boolean(subject, clip, operation), run to its end.
perform_boolean(s, c, op, debug) == run_to_end(InitialRun(s, c, op, debug))

\* The points at which regions are compared, in doubled coordinates: four
\* points in each 2 x 2 cell of the grid, one in each of the triangles into
\* which the diagonals cut the cell.  No edge that joins grid points of the
\* catalog along an axis or a diagonal passes through any of them.
MaxCoordinate == 8 + 2 * MaxShift
SamplePoints ==
  UNION {{Vec2(4 * i + 2, 4 * j + 1), Vec2(4 * i + 2, 4 * j + 3),
          Vec2(4 * i + 1, 4 * j + 2), Vec2(4 * i + 3, 4 * j + 2)} :
           <<i, j>> \in (0..((MaxCoordinate \div 2) - 1))
                          \X (0..((MaxCoordinate \div 2) - 1))}

\* The ray from p (doubled coordinates) towards +x crosses the edge e.
RayCrosses(p, e) ==
  LET a == Vec2(2 * e[1][1], 2 * e[1][2])
      b == Vec2(2 * e[2][1], 2 * e[2][2])
      side == (a[1] - p[1]) * (b[2] - a[2]) + (p[2] - a[2]) * (b[1] - a[1])
  IN /\ (a[2] > p[2]) # (b[2] > p[2])
     /\ IF b[2] > a[2] THEN side > 0 ELSE side < 0

\* p is inside the polygon by the even-odd rule.
Inside(polygon, p) ==
  Cardinality({ci \in UNION {{<<c, i>> : i \in DOMAIN polygon[c]} :
                                c \in DOMAIN polygon} :
                 RayCrosses(p, ContourEdge(polygon[ci[1]], ci[2]))}) % 2 = 1

\* The sample points inside the polygon.
Region(polygon) == {p \in SamplePoints : Inside(polygon, p)}

\* The result of a run, as the BooleanResult it returns.
ResultOf(r) == BooleanResult(r.contours, r.contour_source_edges)

\* C8: when the subject's region is covered by the clip's (the clip may be
\* the subject itself), difference returns no contours and no source-edge
\* lists.
C8_DifferenceOfCoveredIsEmpty ==
  (pc = "done" /\ operation = Difference /\ Region(subject) \subseteq Region(clip))
    => (contours = <<>> /\ contour_source_edges = <<>>)

\* C9: whenever xor(A, B), difference(A, B) and difference(B, A) all return,
\* the region of the first is the union of the regions of the other two;
\* and when B's region lies inside A's, xor(A, B) and difference(A, B)
\* return the same BooleanResult.
C9_XorIsUnionOfDifferences ==
  (pc = "done" /\ operation = XOR) =>
    LET a_minus_b == perform_boolean(subject, clip, Difference, debug_assertions)
        b_minus_a == perform_boolean(clip, subject, Difference, debug_assertions)
    IN /\ (a_minus_b.pc = "done" /\ b_minus_a.pc = "done")
            => Region(contours)
                 = Region(a_minus_b.contours) \cup Region(b_minus_a.contours)
       /\ (a_minus_b.pc = "done" /\ Region(clip) \subseteq Region(subject))
            => ResultOf(Cur) = ResultOf(a_minus_b)

\* C10: whenever intersection(A, B) and intersection(B, A) both return, they
\* return the same contours with the same points in the same order; so do
\* union(A, B) and union(B, A).
C10_IntersectionAndUnionCommute ==
  (pc = "done" /\ operation \in {Intersection, Union}) =>
    LET swapped == perform_boolean(clip, subject, operation, debug_assertions)
    IN swapped.pc = "done" => swapped.contours = contours
-----------------------------------------------------------------------------
(* The fast path *)

\* The polygon has at least one vertex.
HasVertices(polygon) == \E c \in DOMAIN polygon : polygon[c] # <<>>

\* The smallest and the largest value of coordinate k over all vertices.
LowestCoordinate(polygon, k) ==
  CHOOSE v \in UNION {{polygon[c][i][k] : i \in DOMAIN polygon[c]} :
                        c \in DOMAIN polygon} :
    \A c \in DOMAIN polygon : \A i \in DOMAIN polygon[c] : v <= polygon[c][i][k]
HighestCoordinate(polygon, k) ==
  CHOOSE v \in UNION {{polygon[c][i][k] : i \in DOMAIN polygon[c]} :
                        c \in DOMAIN polygon} :
    \A c \in DOMAIN polygon : \A i \in DOMAIN polygon[c] : v >= polygon[c][i][k]

\* Both polygons have vertices and their bounding boxes are strictly
\* separated on x or on y.
BoxesSeparated(p, q) ==
  /\ HasVertices(p) /\ HasVertices(q)
  /\ \E k \in {1, 2} :
       \/ HighestCoordinate(p, k) < LowestCoordinate(q, k)
       \/ HighestCoordinate(q, k) < LowestCoordinate(p, k)

\* The case in which the operation is answered without a sweep.
FastPathCase(p, q) ==
  ~HasVertices(p) \/ ~HasVertices(q) \/ BoxesSeparated(p, q)

\* The source edges of a polygon returned verbatim.
EnumeratedSourceEdges(polygon, is_subject) ==
  [c \in DOMAIN polygon |->
     [i \in DOMAIN polygon[c] |-> SourceEdge(is_subject, c - 1, i - 1)]]

\* The result the fast path is to return.
FastPathResult(p, q, op) ==
  LET p_only == BooleanResult(p, EnumeratedSourceEdges(p, TRUE))
      q_only == BooleanResult(q, EnumeratedSourceEdges(q, FALSE))
  IN CASE op = Intersection -> EmptyResult
       [] op = Difference -> IF HasVertices(p) THEN p_only ELSE EmptyResult
       [] OTHER ->
            IF HasVertices(p) /\ HasVertices(q)
              THEN BooleanResult(p \o q,
                     EnumeratedSourceEdges(p, TRUE)
                       \o EnumeratedSourceEdges(q, FALSE))
            ELSE IF HasVertices(p) THEN p_only
            ELSE IF HasVertices(q) THEN q_only
            ELSE EmptyResult

\* C11: when either input has no vertices or the bounding boxes are
\* strictly separated on x or on y, the call creates no event, runs no
\* sweep and returns the input contours verbatim, empty contours included,
\* with source edges enumerated: nothing for intersection; the subject (or
\* nothing when it has no vertices) for difference; for union and xor the
\* subject's contours followed by the clip's, or only the polygon that has
\* vertices.
C11_FastPathReturnsInputs ==
  (FastPathCase(subject, clip) /\ pc # "perform_boolean") =>
    /\ pc = "done"
    /\ events = <<>> /\ sweep_line = <<>> /\ result = <<>>
    /\ ResultOf(Cur) = FastPathResult(subject, clip, operation)

\* A union of two polygons with separated boxes returned the contours of
\* both, an empty contour among them.
C11_Witness ==
  /\ pc = "done"
  /\ operation = Union
  /\ BoxesSeparated(subject, clip)
  /\ Len(contours) = Len(subject) + Len(clip)
  /\ \E k \in DOMAIN contours : contours[k] = <<>>
-----------------------------------------------------------------------------
(* The orders *)

\* The left events that are active together: the entries of the sweep line
\* and, when the next event of the queue is a left event, that event.
ActiveTogether ==
  {sweep_line[i] : i \in DOMAIN sweep_line}
    \cup (IF at_left_event(Cur)
            THEN {pop_event(events, event_queue)} ELSE {})

\* C12: during the sweep, any two distinct left events that are in the
\* sweep line together, or one in it and the one about to be inserted,
\* compare as Less or Greater, never Equal, and the comparison in the other
\* direction gives the opposite answer.
C12_SweepOrderTotal ==
  pc = "subdivide_edges" =>
    \A a \in ActiveTogether : \A b \in ActiveTogether :
      a # b =>
        /\ SweepCmp(events[a + 1], events[b + 1]) \in {Less, Greater}
        /\ SweepCmp(events[b + 1], events[a + 1])
             = 0 - SweepCmp(events[a + 1], events[b + 1])
\* The sweep of a debug build has just ended: every event of the run is in
\* the table.  (The sweep does not read debug_assertions.)
SweepEnded ==
  pc = "subdivide_edges" /\ event_queue = {} /\ debug_assertions

\* For two events at one point whose edges are both vertical or both not:
\* the edge of a lies below the edge of b on the side of the point where
\* the two edges are.
LiesLower(a, b) ==
  LET dxa == a.other_point[1] - a.point[1]
      dya == a.other_point[2] - a.point[2]
      dxb == b.other_point[1] - b.point[1]
      dyb == b.other_point[2] - b.point[2]
  IN IF a.left THEN dya * dxb < dyb * dxa ELSE dya * dxb > dyb * dxa

\* The order of two events at one point, as a cascade of preferences.
PreferredAtPoint(a, b) ==
  IF a.left # b.left THEN ~a.left
  ELSE IF is_vertical(a) # is_vertical(b) THEN ~is_vertical(a)
  ELSE IF LiesLower(a, b) \/ LiesLower(b, a) THEN LiesLower(a, b)
  ELSE IF a.is_subject # b.is_subject THEN a.is_subject
  ELSE a.event_id < b.event_id

Processed == {id \in 0..(Len(events) - 1) : id \notin event_queue}

\* The greatest element of a non-empty set of numbers.
Greatest(S) == CHOOSE x \in S : \A y \in S : y <= x

\* The sweep position: the last point, in the order of lex_order_points, at
\* which an event has been processed.
SweepPosition ==
  LET x == Greatest({events[id + 1].point[1] : id \in Processed})
  IN Vec2(x, Greatest({events[id + 1].point[2] :
                         id \in {q \in Processed :
                                   events[q + 1].point[1] = x}}))

\* The height of the active edge with left event id at the position p, as
\* a ratio <<numerator, denominator>>: for an edge that is not vertical the
\* ordinate of its line at the abscissa of p, for a vertical edge the
\* ordinate of p kept within the edge.
HeightAt(id, p) ==
  LET a == events[id + 1].point
      b == events[id + 1].other_point
  IN IF a[1] = b[1]
       THEN <<Max(a[2], Min(p[2], event_relations[id + 1].sibling_point[2])),
              1>>
       ELSE <<a[2] * (b[1] - a[1]) + (p[1] - a[1]) * (b[2] - a[2]),
              b[1] - a[1]>>

\* The ratio h is at most the ratio k (both denominators are positive).
NotAbove(h, k) == h[1] * k[2] <= k[1] * h[2]

-----------------------------------------------------------------------------
(* Siblings and splits *)

\* The ids of the events created so far.
EventIds == 0..(Len(events) - 1)

\* Some edge has been split: an event has a sibling that was not created
\* together with it.
SomeEdgeSplit ==
  \E id \in EventIds :
    event_relations[id + 1].sibling_id \notin {id - 1, id + 1}

\* C15: after the events are generated and after any number of splits, for
\* every event E with S = sibling_id(E): sibling_id(S) = E, sibling_point(E)
\* is the point of S, exactly one of E and S is a left event, and E and S
\* have the same is_subject.
C15_SiblingsPaired ==
  /\ Len(event_relations) = Len(events)
  /\ \A id \in EventIds :
       LET sibling_id == event_relations[id + 1].sibling_id
       IN /\ sibling_id \in EventIds
          /\ event_relations[sibling_id + 1].sibling_id = id
          /\ event_relations[id + 1].sibling_point
               = events[sibling_id + 1].point
          /\ events[id + 1].left # events[sibling_id + 1].left
          /\ events[id + 1].is_subject = events[sibling_id + 1].is_subject

\* The queue has drained after edges of the subject and of the clip were
\* split, and a left event created by a split is paired with the right event
\* of the edge it was cut from.
C15_Witness ==
  /\ Drained
  /\ \E id \in EventIds :
       /\ events[id + 1].is_subject
       /\ event_relations[id + 1].sibling_id \notin {id - 1, id + 1}
  /\ \E id \in EventIds :
       /\ ~events[id + 1].is_subject
       /\ event_relations[id + 1].sibling_id \notin {id - 1, id + 1}
  /\ \E id \in EventIds :
       LET sibling_id == event_relations[id + 1].sibling_id
       IN /\ events[id + 1].left
          /\ sibling_id \notin {id - 1, id + 1}
          /\ events[sibling_id + 1].other_point # events[id + 1].point
\* The splits that can be applied in the current state: an active edge,
\* given by its left event in the sweep line, and a point of the run that
\* lies strictly inside it.
SplitCases ==
  {c \in {sweep_line[i] : i \in DOMAIN sweep_line}
         \X {events[i].point : i \in DOMAIN events} :
     StrictlyInside(c[2], events[c[1] + 1].point,
                    event_relations[c[1] + 1].sibling_point)}

\* The state after split_edge is applied to the case c.
AfterSplit(c) == split_edge(StateOf(Cur), events[c[1] + 1], c[2])

\* The events a and b are siblings of each other in the sweep state st and
\* their edge runs from the point p to the point q.
SiblingsSpanning(st, a, b, p, q) ==
  /\ RelOf(st, a).sibling_id = b /\ RelOf(st, b).sibling_id = a
  /\ EventOf(st, a).point = p /\ RelOf(st, a).sibling_point = q
  /\ EventOf(st, b).point = q /\ RelOf(st, b).sibling_point = p

\* The relations of the events in ids carry the tag source_edge in st.
AllTagged(st, ids, source_edge) ==
  \A id \in ids : RelOf(st, id).source_edge = source_edge

\* C16, as stated: after split_edge splits an edge at an interior point P,
\* the left event of the edge and its former right sibling are still
\* siblings of each other, the two new events are siblings of each other,
\* and all four relations carry the source tag the edge had.
C16_OriginalsStaySiblings ==
  pc = "subdivide_edges" =>
    \A c \in SplitCases :
      LET left_id == c[1]
          right_id == event_relations[left_id + 1].sibling_id
          split_1_id == Len(event_relations)
          split_2_id == Len(event_relations) + 1
      IN /\ RelOf(AfterSplit(c), left_id).sibling_id = right_id
         /\ RelOf(AfterSplit(c), right_id).sibling_id = left_id
         /\ RelOf(AfterSplit(c), split_1_id).sibling_id = split_2_id
         /\ RelOf(AfterSplit(c), split_2_id).sibling_id = split_1_id
         /\ AllTagged(AfterSplit(c),
                      {left_id, right_id, split_1_id, split_2_id},
                      event_relations[left_id + 1].source_edge)

\* C16, amended: after split_edge splits the edge from A to B at an
\* interior point P, the left event of the edge and the new right event at P
\* are siblings and span the part from A to P, the new left event at P and
\* the former right sibling are siblings and span the part from P to B, the
\* two new events are in the queue, and all four relations carry the source
\* tag the edge had.
C16_SplitPairsOldWithNew ==
  pc = "subdivide_edges" =>
    \A c \in SplitCases :
      LET left_id == c[1]
          right_id == event_relations[left_id + 1].sibling_id
          split_1_id == Len(event_relations)
          split_2_id == Len(event_relations) + 1
      IN \A st \in {AfterSplit(c)} :
           /\ SiblingsSpanning(st, left_id, split_1_id,
                               events[left_id + 1].point, c[2])
           /\ SiblingsSpanning(st, split_2_id, right_id, c[2],
                               event_relations[left_id + 1].sibling_point)
           /\ ~EventOf(st, split_1_id).left
           /\ EventOf(st, split_2_id).left
           /\ {split_1_id, split_2_id} \subseteq st.event_queue
           /\ AllTagged(st, {left_id, right_id, split_1_id, split_2_id},
                        event_relations[left_id + 1].source_edge)

\* An edge has been split during the sweep, and an active edge of the
\* subject and an active edge of the clip each have a point of the run
\* strictly inside them.
C16_Witness ==
  /\ pc = "subdivide_edges"
  /\ SomeEdgeSplit
  /\ \E c \in SplitCases : events[c[1] + 1].is_subject
  /\ \E c \in SplitCases : ~events[c[1] + 1].is_subject
-----------------------------------------------------------------------------
(* The life of an event *)

\* The number of entries of the sequence line that are equal to id.
Occurrences(line, id) == Cardinality({i \in DOMAIN line : line[i] = id})

\* The sequence line without its entries equal to id.
Without(line, id) == SelectSeq(line, LAMBDA x : x # id)

\* The loop of subdivide_edges is about to dequeue an event.
AboutToDequeue == pc = "subdivide_edges" /\ event_queue # {}

\* C17: in every run each event is enqueued exactly once, when it is
\* created, and dequeued exactly once; a left event is inserted into the
\* sweep line exactly once, when it is dequeued, and removed exactly once,
\* when its current right sibling is dequeued, the entry removed being the
\* one whose id is the sibling_id of the right event; and when the queue is
\* empty the sweep line is empty.
C17_EachEventOnce ==
  [][/\ \A id \in (Len(events))..(Len(events') - 1) : id \in event_queue'
     /\ \A id \in EventIds : id \in event_queue' => id \in event_queue
     /\ \A id \in EventIds :
          Occurrences(sweep_line', id) > Occurrences(sweep_line, id)
            => (AboutToDequeue /\ id = pop_event(events, event_queue))
     /\ AboutToDequeue =>
          LET id == pop_event(events, event_queue)
              sibling_id == event_relations[id + 1].sibling_id
          IN /\ event_queue \ event_queue' = {id}
             /\ events[id + 1].left =>
                  /\ Occurrences(sweep_line, id) = 0
                  /\ Occurrences(sweep_line', id) = 1
                  /\ Without(sweep_line', id) = sweep_line
             /\ ~events[id + 1].left =>
                  /\ Occurrences(sweep_line, sibling_id) = 1
                  /\ sweep_line' = Without(sweep_line, sibling_id)
     /\ (pc' = "subdivide_edges" /\ event_queue' = {}) => sweep_line' = <<>>
    ]_vars
-----------------------------------------------------------------------------
(* in_result and coincident edges *)

\* C18: once the event queue has drained, every left event and its current
\* right sibling have the same in_result, also when the in_result of the
\* edge was changed by the handling of an overlap after the left event was
\* dequeued.
C18_SiblingsShareInResult ==
  Drained =>
    \A id \in EventIds :
      events[id + 1].left =>
        event_relations[event_relations[id + 1].sibling_id + 1].in_result
          = event_relations[id + 1].in_result

\* The queue has drained; one left event is in the result together with its
\* sibling, and another, which was in the result when it was dequeued, has
\* been taken out of it since by the handling of an overlap.
C18_Witness ==
  /\ pc = "subdivide_edges" /\ events # <<>> /\ event_queue = {}
  /\ \E id \in EventIds :
       /\ events[id + 1].left
       /\ event_relations[id + 1].in_result
       /\ event_relations[event_relations[id + 1].sibling_id + 1].in_result
  /\ \E i \in DOMAIN result :
       /\ events[result[i] + 1].left
       /\ ~event_relations[result[i] + 1].in_result
       /\ event_relations[result[i] + 1].edge_coincidence_type
            # NoCoincidence
\* The two edges of a call of check_for_intersection overlap on a segment.
IsOverlap(call) ==
  edge_intersection(
    <<call.new_event.point,
      RelOf(call.st, call.new_event.event_id).sibling_point>>,
    <<call.existing_event.point,
      RelOf(call.st, call.existing_event.event_id).sibling_point>>).kind
    = "LineIntersection"

\* What a call of check_for_intersection does when the two edges overlap on
\* a segment: the ids of the two coincident fragments, the sweep state after
\* the splits and before the tags are written, and the state after the call.
Overlap(call, op) ==
  LET hit == edge_intersection(
               <<call.new_event.point,
                 RelOf(call.st, call.new_event.event_id).sibling_point>>,
               <<call.existing_event.point,
                 RelOf(call.st, call.existing_event.event_id).sibling_point>>)
      n == split_coincident(call.st, call.new_event, hit.start, hit.end)
      x == split_coincident(n.state, call.existing_event, hit.start, hit.end)
  IN [call |-> call,
      new_id |-> n.coincident_event_id,
      existing_id |-> x.coincident_event_id,
      split |-> x.state,
      after |-> check_for_intersection(call.st, call.new_event,
                                       call.existing_event, op)]

\* The edges of two events lie on one line. A split keeps the fragments on
\* the line of the edge, so the end points the events were made with decide.
OnOneLine(a, b) ==
  /\ PerpDot(VSub(a.other_point, a.point), VSub(b.other_point, b.point)) = 0
  /\ PerpDot(VSub(a.other_point, a.point), VSub(b.point, a.point)) = 0

\* The next step can meet an overlap: two of the edges it has at hand, those
\* on the sweep line and, when it dequeues a left event, the edge of that
\* event, lie on one line. edge_intersection answers LineIntersection for
\* such edges only.
MayOverlap ==
  /\ pc = "subdivide_edges" /\ event_queue # {}
  /\ \E a, b \in {sweep_line[i] : i \in DOMAIN sweep_line}
                   \cup {id \in {pop_event(events, event_queue)} :
                           events[id + 1].left} :
       a # b /\ OnOneLine(events[a + 1], events[b + 1])

\* The overlaps handled by the step the run takes next.
NextOverlaps ==
  IF ~MayOverlap THEN {}
  ELSE UNION {{Overlap(calls[i], operation) :
                 i \in {j \in DOMAIN calls : IsOverlap(calls[j])}} :
                calls \in {check_for_intersection_calls(Cur)}}

\* The in_result that goes with a coincidence tag under an operation.
TaggedInResult(type, op) ==
  \/ type = SameTransition /\ op \in {Intersection, Union}
  \/ type = DifferentTransition /\ op = Difference

\* C19: after an overlap is handled, exactly one of the two coincident
\* fragments is tagged Duplicate with in_result = FALSE, and the other has
\* the tag SameTransition or DifferentTransition and the in_result that
\* goes with it: SameTransition is in the result for intersection and union
\* only, DifferentTransition for difference only, neither for xor.
\* Recomputing in_result for a tagged fragment gives the value it has, right
\* after the call and in every later state of the run.
C19_OnePrimaryOneDuplicate ==
  /\ \A o \in NextOverlaps :
       LET new_relation == RelOf(o.after, o.new_id)
           existing_relation == RelOf(o.after, o.existing_id)
       IN /\ (new_relation.edge_coincidence_type = DuplicateCoincidence)
               # (existing_relation.edge_coincidence_type
                    = DuplicateCoincidence)
          /\ \A relation \in {new_relation, existing_relation} :
               /\ relation.edge_coincidence_type # NoCoincidence
               /\ relation.in_result
                    = TaggedInResult(relation.edge_coincidence_type, operation)
          /\ \A id \in {o.new_id, o.existing_id} :
               in_result(EventOf(o.after, id), RelOf(o.after, id), operation)
                 = RelOf(o.after, id).in_result
  /\ \A id \in EventIds :
       (events[id + 1].left
          /\ event_relations[id + 1].edge_coincidence_type # NoCoincidence)
         => /\ event_relations[id + 1].in_result
                = TaggedInResult(event_relations[id + 1].edge_coincidence_type,
                                 operation)
            /\ in_result(events[id + 1], event_relations[id + 1], operation)
                = event_relations[id + 1].in_result

\* The next step handles an overlap one of whose fragments has just been
\* created by a split, and the primary fragment is in the result.
C19_Witness ==
  \E o \in NextOverlaps :
    /\ {o.new_id, o.existing_id}
         # {o.call.new_event.event_id, o.call.existing_event.event_id}
    /\ \E id \in {o.new_id, o.existing_id} : RelOf(o.after, id).in_result
\* The tag of the primary fragment of the overlap o after the call.
PrimaryTag(o) ==
  IF RelOf(o.after, o.new_id).edge_coincidence_type = DuplicateCoincidence
    THEN RelOf(o.after, o.existing_id).edge_coincidence_type
    ELSE RelOf(o.after, o.new_id).edge_coincidence_type

\* C20, as stated: when an overlap on the segment from S to E is found, the
\* primary fragment is tagged SameTransition exactly when the in_out flags
\* stored at that moment for the two coincident fragments, those whose end
\* points are S and E and which may have just been created by a split, are
\* equal, and DifferentTransition otherwise.
C20_TagFromFragmentFlags ==
  \A o \in NextOverlaps :
    PrimaryTag(o) =
      IF RelOf(o.split, o.new_id).in_out
           = RelOf(o.split, o.existing_id).in_out
        THEN SameTransition ELSE DifferentTransition

\* C20, amended: the primary fragment is tagged SameTransition exactly when
\* the in_out flags stored for the two left events given to
\* check_for_intersection, the new event and the existing event, are equal,
\* and DifferentTransition otherwise; the flags of a fragment that a split
\* has just created are not read.
C20_TagFromEventFlags ==
  \A o \in NextOverlaps :
    PrimaryTag(o) =
      IF RelOf(o.split, o.call.new_event.event_id).in_out
           = RelOf(o.split, o.call.existing_event.event_id).in_out
        THEN SameTransition ELSE DifferentTransition

\* The next step handles an overlap in which a fragment just created by a
\* split has an in_out flag other than that of the event it was cut from.
C20_Witness ==
  \E o \in NextOverlaps :
    \E e \in {<<o.new_id, o.call.new_event.event_id>>,
               <<o.existing_id, o.call.existing_event.event_id>>} :
      /\ e[1] # e[2]
      /\ RelOf(o.split, e[1]).in_out # RelOf(o.split, e[2]).in_out

\* The fragment of the overlap o that the call chose as primary.
PrimaryId(o) ==
  IF RelOf(o.after, o.new_id).edge_coincidence_type = DuplicateCoincidence
    THEN o.existing_id ELSE o.new_id

\* C21: after an overlap is handled, the primary fragment has the
\* prev_in_result that the left event of the existing edge had when the
\* call was made (and still has after it), whether the primary fragment is
\* the one of the new edge or the one of the existing edge.
C21_PrimaryTakesExistingPrev ==
  \A o \in NextOverlaps :
    /\ RelOf(o.after, PrimaryId(o)).prev_in_result
         = RelOf(o.call.st, o.call.existing_event.event_id).prev_in_result
    /\ RelOf(o.after, PrimaryId(o)).prev_in_result
         = RelOf(o.after, o.call.existing_event.event_id).prev_in_result

\* The next step handles an overlap whose primary fragment is the one of
\* the new edge, and that fragment had, before the tags were written, a
\* prev_in_result other than that of the existing edge.
C21_Witness ==
  \E o \in NextOverlaps :
    /\ PrimaryId(o) = o.new_id
    /\ RelOf(o.split, o.new_id).prev_in_result
         # RelOf(o.call.st, o.call.existing_event.event_id).prev_in_result

-----------------------------------------------------------------------------
(* The lowest edge of the sweep line *)

\* The id of the event the next step of the sweep dequeues.
NextEventId == pop_event(events, event_queue)

\* The next step of the sweep dequeues a left event and inserts it at
\* position 0 of the sweep line.
InsertsAtBottom ==
  /\ at_left_event(Cur)
  /\ \A search \in {binary_search(events, sweep_line,
                                   events[NextEventId + 1], 0,
                                   Len(sweep_line))} :
       ~search.unreachable /\ ~search.found /\ search.pos = 0

OriginalEvents ==
  Len(create_events(InitialRun(subject, clip, operation,
                               debug_assertions)).events)

-----------------------------------------------------------------------------
(* The contour walk *)

\* The walk of compute_contour is at an event whose point is not the start
\* point of the contour.
WalkAwayFromStart ==
  /\ pc = "compute_contour"
  /\ events[walk.current_event + 1].point
       # events[walk.start_event + 1].point

\* The index in the result list of the event the walk is at.
WalkResultId == event_id_to_contour_flags[walk.current_event].result_id

\* The result list holds at index i (from 0) an event at the point p.
ResultEventAt(i, p) ==
  /\ 0 <= i
  /\ i < Len(result)
  /\ events[result[i + 1] + 1].point = p

\* C23: whenever the walk is at an event S whose point is not the start
\* point of the contour, the result list holds an event with the point of
\* S at index result_id(S) - 1 or at index result_id(S) + 1, so neither
\* debug assertion of compute_contour fails and result_id + 1 is in range
\* when it is used.
C23_WalkFindsNeighbour ==
  WalkAwayFromStart =>
    \/ ResultEventAt(WalkResultId - 1, events[walk.current_event + 1].point)
    \/ ResultEventAt(WalkResultId + 1, events[walk.current_event + 1].point)

-----------------------------------------------------------------------------
(* edge_intersection on its own: the function is applied to pairs of       *)
(* segments of a small grid, each given from its lexicographically         *)
(* smaller end point as check_for_intersection gives them.                 *)

\* The greatest abscissa and the greatest ordinate of the grid.
MaxSegmentX == 13
MaxSegmentY == 1

SegmentPoints == {Vec2(x, y) : x \in 0..MaxSegmentX, y \in 0..MaxSegmentY}

Segments ==
  {line \in SegmentPoints \X SegmentPoints :
     lex_order_points(line[1], line[2]) = Less}

\* The two segments are held in subject and clip, the answer in result.
InitSegments ==
  \E line_1 \in Segments, line_2 \in Segments :
    /\ subject = <<line_1>>
    /\ clip = <<line_2>>
    /\ operation = Intersection
    /\ debug_assertions = FALSE
    /\ pc = "edge_intersection"
    /\ fatal = ""
    /\ events = <<>>
    /\ event_queue = {}
    /\ event_relations = <<>>
    /\ sweep_line = <<>>
    /\ result = <<>>
    /\ event_id_to_contour_flags = <<>>
    /\ result_index = 0
    /\ contours = <<>>
    /\ contour_source_edges = <<>>
    /\ contour_depths = <<>>
    /\ walk = NoWalk

EdgeIntersection ==
  /\ pc = "edge_intersection"
  /\ pc' = "edge_intersection_done"
  /\ result' = <<edge_intersection(subject[1], clip[1])>>
  /\ UNCHANGED <<subject, clip, operation, debug_assertions, fatal, events,
                 event_queue, event_relations, sweep_line,
                 event_id_to_contour_flags, result_index, contours,
                 contour_source_edges, contour_depths, walk>>

NextSegments == EdgeIntersection

SegmentSpec == InitSegments /\ [][NextSegments]_vars

\* The segments e and f are not parallel and have an end point in common.
ShareCorner(e, f) ==
  /\ PerpDot(VSub(e[2], e[1]), VSub(f[2], f[1])) # 0
  /\ {e[1], e[2]} \cap {f[1], f[2]} # {}

\* The segments e and f lie on one line and have one end point in common
\* and no other point.
TouchEndToEnd(e, f) ==
  /\ OnSegment(f[1], e[1], e[2]) \/ OnSegment(e[1], f[1], f[2])
  /\ PerpDot(VSub(e[2], e[1]), VSub(f[2], f[1])) = 0
  /\ \E c \in {e[1], e[2]} \cap {f[1], f[2]} :
       \A a \in {e[1], e[2]} \ {c} : \A b \in {f[1], f[2]} \ {c} :
         Dot(VSub(a, c), VSub(b, c)) < 0

\* The end points of one of the segments e and f that lie strictly inside
\* the other one, the segments not being parallel.
EndPointsInside(e, f) ==
  IF PerpDot(VSub(e[2], e[1]), VSub(f[2], f[1])) = 0 THEN {}
  ELSE {p \in {f[1], f[2]} : StrictlyInside(p, e[1], e[2])}
         \cup {p \in {e[1], e[2]} : StrictlyInside(p, f[1], f[2])}

\* The answers of edge_intersection that the next step of the sweep uses
\* are points of the integer grid: on the inputs of the sweep no rounding
\* takes place.
SweepOnGrid ==
  \A calls \in {check_for_intersection_calls(Cur)} :
    \A i \in DOMAIN calls :
      \A hit \in {edge_intersection(
                     <<calls[i].new_event.point,
                       RelOf(calls[i].st,
                             calls[i].new_event.event_id).sibling_point>>,
                     <<calls[i].existing_event.point,
                       RelOf(calls[i].st,
                             calls[i].existing_event.event_id).sibling_point>>)} :
        /\ hit.start_f32 = F32Vec2(hit.start)
        /\ hit.end_f32 = F32Vec2(hit.end)

\* C24, the segments that only share an end point of both: the answer is
\* NoIntersection, in either order of the arguments.
C24_EndpointContactIsNone ==
  (pc = "edge_intersection_done"
     /\ (ShareCorner(subject[1], clip[1])
           \/ TouchEndToEnd(subject[1], clip[1]))) =>
    /\ result[1] = NoIntersection
    /\ edge_intersection(clip[1], subject[1]) = NoIntersection

\* C24: edge_intersection returns NoIntersection when the only common
\* point of the two segments is an end point of both (segments that are
\* not collinear and share a corner, collinear segments that touch end to
\* end), it returns PointIntersection at the end point when an end point
\* of one segment lies strictly inside the other segment and the two are
\* not parallel, and in these cases the answer is the same when the two
\* segments are swapped.
C24_EndpointContact ==
  /\ C24_EndpointContactIsNone
  /\ pc = "edge_intersection_done" =>
       \A p \in EndPointsInside(subject[1], clip[1]) :
         /\ result[1].kind = "PointIntersection"
         /\ result[1].start_f32 = F32Vec2(p)
         /\ edge_intersection(clip[1], subject[1]) = result[1]

-----------------------------------------------------------------------------
(* The events made from the contours *)

\* The events have been made and none has been dequeued.
EventsCreated ==
  /\ pc = "subdivide_edges"
  /\ event_queue = 0..(Len(events) - 1)

\* The edges of the two polygons whose end points differ, each as
\* <<0 for the subject and 1 for the clip, contour, index of the first
\* point>>, the indices counted from 0.
ProperEdges ==
  {k \in UNION {{<<0, c - 1, i - 1>> : i \in DOMAIN subject[c]} :
                  c \in DOMAIN subject}
         \cup UNION {{<<1, c - 1, i - 1>> : i \in DOMAIN clip[c]} :
                       c \in DOMAIN clip} :
     LET polygon == IF k[1] = 0 THEN subject ELSE clip
         e == ContourEdge(polygon[k[2] + 1], k[3] + 1)
     IN e[1] # e[2]}

\* The edge k comes before the edge l in the order of the generator:
\* subject before clip, then by contour, then by first point.
EdgeBefore(k, l) ==
  \/ k[1] < l[1]
  \/ k[1] = l[1] /\ k[2] < l[2]
  \/ k[1] = l[1] /\ k[2] = l[2] /\ k[3] < l[3]

-----------------------------------------------------------------------------
(* The result list handed to join_contours *)

\* The result list has been filtered and the contours are being assembled.
Assembling == pc \in {"join_contours", "compute_contour"}

\* The ids of the filtered result list.
ResultIds == {result[i] : i \in DOMAIN result}

\* C26: the filtered result list handed to join_contours is closed under
\* siblings: the event named by the sibling_id of each of its events is in
\* the list too, hence a key of the contour flags.
C26_ResultClosedUnderSiblings ==
  Assembling =>
    \A id \in ResultIds :
      /\ event_relations[id + 1].sibling_id \in ResultIds
      /\ event_relations[id + 1].sibling_id
           \in DOMAIN event_id_to_contour_flags


-----------------------------------------------------------------------------
(* The use of the result edges by the contour walks *)

\* The number of points of the contours i..Len(cs) of cs.
RECURSIVE PointsFrom(_, _)
PointsFrom(cs, i) ==
  IF i > Len(cs) THEN 0 ELSE Len(cs[i]) + PointsFrom(cs, i + 1)

\* The number of points pushed so far by the finished walks and by the
\* walk under way.
PointsPushed == PointsFrom(contours, 1) + Len(walk.contour)

\* C27: the contour walks use each result edge exactly once: no walk
\* visits an event that a walk has visited, so the points pushed never
\* outnumber the result edges (half the events of the filtered result
\* list), and when the last contour is emitted every event has been
\* visited and the points of all contours are as many as the result edges.
C27_EachResultEdgeOnce ==
  /\ Assembling => 2 * PointsPushed <= Len(result)
  /\ SweepDone => 2 * PointsFrom(contours, 1) = Len(result)

-----------------------------------------------------------------------------
(* The edge below the start of a contour *)

\* The place of the event id in the filtered result list, counted from 1.
ResultPlace(id) == CHOOSE i \in DOMAIN result : result[i] = id

\* C28: when join_contours starts a contour at an event, the
\* prev_in_result of that event is None or the id of a left event that is
\* in the filtered result list at an earlier place than the starting
\* event; an edge demoted to a duplicate is never the prev_in_result of
\* the starting event.
C28_StartDepthFromEarlierEdge ==
  at_start_contour(Cur) =>
    \A prev \in {event_relations[result[result_index + 1] + 1].prev_in_result} :
      \/ prev = None
      \/ /\ prev \in ResultIds
         /\ events[prev + 1].left
         /\ ResultPlace(prev) < result_index + 1
         /\ event_relations[prev + 1].edge_coincidence_type
              # "DuplicateCoincidence"

-----------------------------------------------------------------------------
(* The order of the dequeued events *)

\* C29: the events are dequeued in the order of the event queue: every
\* event dequeued so far is smaller than every event still queued, splits
\* included, and the result list, built in the order of dequeuing, is
\* sorted in the order of the event queue.
C29_DequeuedInQueueOrder ==
  pc = "subdivide_edges" =>
    /\ \A p \in Processed : \A q \in event_queue :
         EventCmp(events[p + 1], events[q + 1]) = Less
    /\ \A i \in DOMAIN result : \A j \in DOMAIN result :
         i < j => EventCmp(events[result[i] + 1], events[result[j] + 1]) = Less

\* C29, amended: the events are dequeued in non-decreasing order of their
\* points.  When an event is dequeued and processed, every event in the
\* queue after the step is greater in the order of the event queue, or is
\* an event that a split of this step has enqueued at the point of the
\* dequeued event; and an event pushed to the result list is at a point
\* not smaller than those of the events before it, so that the result list
\* is sorted by point.
C29_DequeuedInPointOrder ==
  [][AboutToDequeue /\ pc' = "subdivide_edges" =>
       \A p \in {NextEventId} :
         /\ \A q \in event_queue' :
              \/ EventCmp(events'[p + 1], events'[q + 1]) = Less
              \/ /\ q \notin event_queue
                 /\ events'[q + 1].point = events'[p + 1].point
         /\ Len(result') > Len(result) =>
              \A i \in DOMAIN result :
                lex_order_points(events[result[i] + 1].point,
                                 events[p + 1].point) # Greater]_vars

\* A left event has been dequeued and pushed to the result list, and a
\* split has put a right event at the same point into the queue, which
\* the order of the event queue places before the left event.
C29_Witness ==
  /\ pc = "subdivide_edges"
  /\ \E p \in Processed : \E q \in event_queue :
       /\ EventCmp(events[q + 1], events[p + 1]) = Less
       /\ events[p + 1].point = events[q + 1].point
       /\ events[p + 1].left
       /\ ~events[q + 1].left
       /\ p \in ResultIds

-----------------------------------------------------------------------------
(* Termination *)

\* The inputs whose runs are followed to their end: squares, diamonds and
\* triangles, whose corners meet edges and other corners, and an empty clip.
FairInputs ==
  {<<s, Translate(c, dx, dy)>> :
     s \in {Square, Diamond, Triangle}, c \in {Diamond, Triangle, NoContours},
     dx \in Shifts, dy \in Shifts}

FairInit == Init /\ <<subject, clip>> \in FairInputs

\* The steps of join_contours and compute_contour.
JoinContours ==
  SkipProcessed \/ StartContour \/ WalkStep \/ FinishContour \/ ReturnResult

\* perform_boolean is sequential code on one thread: once the result list
\* is handed to join_contours, the next step is taken whenever one is
\* possible.
FairSpec == FairInit /\ [][Next]_vars /\ WF_vars(JoinContours)

=============================================================================
